---- MODULE Spec2Model ----
(***************************************************************************)
(* A state-machine model of the ngtcp2 QUIC connection engine              *)
(* (src/deps/ngtcp2/lib/ngtcp2_conn.c, ngtcp2_pkt.c, ngtcp2_err.c).        *)
(*                                                                         *)
(* The connection object is one record, conn, whose fields carry the names *)
(* of the C struct members.  Every library function is an operator that    *)
(* takes the connection record and returns the new record together with    *)
(* the function's return value; every API entry point is one action.       *)
(* Library error codes are strings named after the NGTCP2_ERR_* macros;    *)
(* a successful write returns the string "NWRITE" (a positive length).     *)
(*                                                                         *)
(* Not modelled: packet protection itself (a packet either authenticates   *)
(* or does not), congestion control, path validation and connection-ID     *)
(* management, timers.  Out-of-memory and callback failures (the two       *)
(* fatal library errors) are not injected.                                 *)
(***************************************************************************)
EXTENDS Integers, Sequences, FiniteSets, TLC

VARIABLES conn,   \* the ngtcp2_conn object
          rv,     \* return value of the last API call
          last,   \* the last API call and its input
          dest,   \* packets the last API call wrote into its output buffer
          sent,   \* per packet-number space, every packet number written so far
          fatal   \* a call has returned an error ngtcp2_err_is_fatal holds of

vars == <<conn, rv, last, dest, sent, fatal>>

(***************************************************************************)
(* Bounds of the model.                                                    *)
(***************************************************************************)
\* Scaled stand-in for NGTCP2_MAX_PKT_NUM (2^62 - 1).
NGTCP2_MAX_PKT_NUM == 3
\* Scaled stand-in for the width of uint64_t / size_t arithmetic.
UINT_BITS == 8
\* Largest stream offset / flow-control limit an input may name.
MaxOff == 3
\* Largest packet number a received packet may carry.
MaxRxPktNum == 3

\* Scaled stand-in for the 8 bits of a packet-number byte.
PKT_NUM_BYTE_BITS == 2

UINT_MOD == 2 ^ UINT_BITS

\* The largest variable-length integer (2^62 - 1 next to 64-bit arithmetic)
\* and the largest stream count (2^60), scaled with the integer width.
NGTCP2_MAX_VARINT == 2 ^ (UINT_BITS - 2) - 1
NGTCP2_MAX_STREAMS == 2 ^ (UINT_BITS - 4)

\* Unsigned subtraction as the C code computes it (wraps modulo 2^w).
usub(a, b) == (a - b + UINT_MOD) % UINT_MOD

ngtcp2_min(a, b) == IF a < b THEN a ELSE b
ngtcp2_max(a, b) == IF a > b THEN a ELSE b

(***************************************************************************)
(* Enumerations.  Packet types and frame types are different C enums with  *)
(* different values (a long-header packet type is a 2-bit field, see       *)
(* ngtcp2_pkt_get_type_long; CONNECTION_CLOSE_APP is frame type 0x1d), so  *)
(* each enumerator is its own string.                                      *)
(***************************************************************************)
NGTCP2_PKT_INITIAL == "PKT_INITIAL"
NGTCP2_PKT_0RTT == "PKT_0RTT"
NGTCP2_PKT_HANDSHAKE == "PKT_HANDSHAKE"
NGTCP2_PKT_SHORT == "PKT_SHORT"
NGTCP2_PKT_RETRY == "PKT_RETRY"
NGTCP2_PKT_VERSION_NEGOTIATION == "PKT_VERSION_NEGOTIATION"

NGTCP2_FRAME_PADDING == "FRAME_PADDING"
NGTCP2_FRAME_PING == "FRAME_PING"
NGTCP2_FRAME_ACK == "FRAME_ACK"
NGTCP2_FRAME_CRYPTO == "FRAME_CRYPTO"
NGTCP2_FRAME_STREAM == "FRAME_STREAM"
NGTCP2_FRAME_RESET_STREAM == "FRAME_RESET_STREAM"
NGTCP2_FRAME_MAX_DATA == "FRAME_MAX_DATA"
NGTCP2_FRAME_MAX_STREAM_DATA == "FRAME_MAX_STREAM_DATA"
NGTCP2_FRAME_STOP_SENDING == "FRAME_STOP_SENDING"
NGTCP2_FRAME_MAX_STREAMS_BIDI == "FRAME_MAX_STREAMS_BIDI"
NGTCP2_FRAME_MAX_STREAMS_UNI == "FRAME_MAX_STREAMS_UNI"
NGTCP2_FRAME_NEW_CONNECTION_ID == "FRAME_NEW_CONNECTION_ID"
NGTCP2_FRAME_RETIRE_CONNECTION_ID == "FRAME_RETIRE_CONNECTION_ID"
NGTCP2_FRAME_PATH_CHALLENGE == "FRAME_PATH_CHALLENGE"
NGTCP2_FRAME_PATH_RESPONSE == "FRAME_PATH_RESPONSE"
NGTCP2_FRAME_CONNECTION_CLOSE == "FRAME_CONNECTION_CLOSE"
NGTCP2_FRAME_CONNECTION_CLOSE_APP == "FRAME_CONNECTION_CLOSE_APP"

NGTCP2_CS_CLIENT_INITIAL == "CLIENT_INITIAL"
NGTCP2_CS_CLIENT_WAIT_HANDSHAKE == "CLIENT_WAIT_HANDSHAKE"
NGTCP2_CS_SERVER_INITIAL == "SERVER_INITIAL"
NGTCP2_CS_SERVER_WAIT_HANDSHAKE == "SERVER_WAIT_HANDSHAKE"
NGTCP2_CS_POST_HANDSHAKE == "POST_HANDSHAKE"
NGTCP2_CS_CLOSING == "CLOSING"
NGTCP2_CS_DRAINING == "DRAINING"

\* ngtcp2_err_is_fatal: only NGTCP2_ERR_NOMEM and NGTCP2_ERR_CALLBACK_FAILURE
\* (and NGTCP2_ERR_INTERNAL) lie below NGTCP2_ERR_FATAL.
ngtcp2_err_is_fatal(liberr) ==
  liberr \in {"ERR_NOMEM", "ERR_CALLBACK_FAILURE", "ERR_INTERNAL"}

\* An inference that knows one transport error code only.
ngtcp2_err_infer_quic_transport_error_code_proto(liberr) ==
  IF liberr = "OK" THEN "NO_ERROR" ELSE "PROTOCOL_VIOLATION"

ngtcp2_err_infer_quic_transport_error_code(liberr) ==
  CASE liberr = "OK" -> "NO_ERROR"
    [] liberr \in {"ERR_ACK_FRAME", "ERR_FRAME_ENCODING"} -> "FRAME_ENCODING_ERROR"
    [] liberr = "ERR_FLOW_CONTROL" -> "FLOW_CONTROL_ERROR"
    [] liberr = "ERR_STREAM_LIMIT" -> "STREAM_LIMIT_ERROR"
    [] liberr = "ERR_FINAL_SIZE" -> "FINAL_SIZE_ERROR"
    [] liberr \in {"ERR_REQUIRED_TRANSPORT_PARAM", "ERR_MALFORMED_TRANSPORT_PARAM"}
         -> "TRANSPORT_PARAMETER_ERROR"
    [] liberr = "ERR_INVALID_ARGUMENT" -> "INTERNAL_ERROR"
    [] liberr = "ERR_STREAM_STATE" -> "STREAM_STATE_ERROR"
    [] liberr = "ERR_CRYPTO_BUFFER_EXCEEDED" -> "CRYPTO_BUFFER_EXCEEDED"
    [] OTHER -> "PROTOCOL_VIOLATION"

(***************************************************************************)
(* Construction.                                                           *)
(***************************************************************************)
\* Time is counted in units of NGTCP2_DEFAULT_INITIAL_RTT; the timer
\* granularity and the default of max_ack_delay are one unit each.
NGTCP2_DEFAULT_INITIAL_RTT == 1

NGTCP2_GRANULARITY == 1

NGTCP2_DEFAULT_MAX_ACK_DELAY == 1

\* The largest timestamp: the time of retirement of a connection ID that
\* is not retired.
UINT64_MAX == 2147483647

\* The local settings every modelled endpoint is created with.
settings ==
  [max_data |-> MaxOff,
   max_stream_data_bidi_local |-> MaxOff,
   max_stream_data_bidi_remote |-> MaxOff,
   max_stream_data_uni |-> MaxOff,
   max_streams_bidi |-> 1,
   max_streams_uni |-> 1,
   max_ack_delay |-> NGTCP2_DEFAULT_MAX_ACK_DELAY]

\* remote.settings before any transport parameters are installed (calloc).
zero_settings ==
  [max_data |-> 0,
   max_stream_data_bidi_local |-> 0,
   max_stream_data_bidi_remote |-> 0,
   max_stream_data_uni |-> 0,
   max_streams_bidi |-> 0,
   max_streams_uni |-> 0,
   max_ack_delay |-> 0]

pktns_init ==
  [tx |-> [last_pkt_num |-> -1, frq |-> <<>>],
   rx |-> [max_pkt_num |-> -1, pngap |-> {}, buffed_pkts |-> << >>],
   crypto |-> [tx |-> [ckm |-> FALSE, frq |-> 0],
               rx |-> [ckm |-> FALSE, key_phase |-> FALSE, pkt_num |-> 0],
               strm |-> [rx_offset |-> 0]],
   acktr |-> [ents |-> {}, active_ack |-> FALSE, immediate_ack |-> FALSE,
              rx_npkt |-> 0],
   rtb |-> [ents |-> {}, largest_acked_tx_pkt_num |-> -1]]

\* The capacities of the rings of destination connection IDs, of the
\* entries of a path validator and of the chain of buffered packets.
NGTCP2_MAX_DCID_POOL_SIZE == 2

NGTCP2_MAX_DCID_RETIRED_SIZE == 2

NGTCP2_MAX_BOUND_DCID_POOL_SIZE == 2

NGTCP2_PV_MAX_ENTRIES == 2

NGTCP2_MAX_NUM_BUFFED_RX_PKTS == 2

\* The capacity of the ring rx.path_challenge.
MaxPathChallenge == 4

\* A path is a number; a connection ID that is bound to no path has the
\* zeroed path.
zero_path == -1

\* ngtcp2_dcid_init: a destination connection ID that is bound to no path.
ngtcp2_dcid_init(seq, cid) ==
  [seq |-> seq, cid |-> cid, path |-> zero_path, ts_retired |-> 0]

\* A ring buffer is the sequence of its elements, the first at the front.
\* Pushing to a full ring overwrites the element at the other end.
ngtcp2_ringbuf_full(rb, nmemb) == Len(rb) = nmemb

ngtcp2_ringbuf_push_back(rb, nmemb, x) ==
  IF Len(rb) = nmemb THEN Append(Tail(rb), x) ELSE Append(rb, x)

ngtcp2_ringbuf_push_front(rb, nmemb, x) ==
  IF Len(rb) = nmemb THEN <<x>> \o SubSeq(rb, 1, nmemb - 1) ELSE <<x>> \o rb

ngtcp2_ringbuf_pop_front(rb) == Tail(rb)

ngtcp2_ringbuf_pop_back(rb) == SubSeq(rb, 1, Len(rb) - 1)

\* ngtcp2_scid_init: a source connection ID that is neither used nor
\* retired.
ngtcp2_scid_init(seq, cid) ==
  [seq |-> seq, cid |-> cid, flags |-> {}, ts_retired |-> UINT64_MAX]

\* The recovery state of a new connection.  Round-trip samples are not
\* taken, so that smoothed_rtt and rttvar keep their initial value.
rcs_init ==
  [crypto_count |-> 0, pto_count |-> 0, probe_pkt_left |-> 0,
   loss_detection_timer |-> FALSE, smoothed_rtt |-> 0, rttvar |-> 0]

\* The congestion state of a new connection.  The window adjustments of
\* the congestion controller (on acknowledgement and on loss) are not
\* modelled: cwnd keeps the value it has in the initial state.
NGTCP2_MAX_DGRAM_SIZE == 2

NGTCP2_MIN_CWND == 2 * NGTCP2_MAX_DGRAM_SIZE

ccs_init ==
  [cwnd |-> ngtcp2_min(10 * NGTCP2_MAX_DGRAM_SIZE,
                       ngtcp2_max(2 * NGTCP2_MAX_DGRAM_SIZE, 14720))]

conn_new(server) ==
  [state |-> IF server THEN NGTCP2_CS_SERVER_INITIAL ELSE NGTCP2_CS_CLIENT_INITIAL,
   server |-> server,
   flags |-> {},
   in_pktns |-> pktns_init,
   hs_pktns |-> pktns_init,
   pktns |-> pktns_init,
   early |-> [ckm |-> FALSE],
   token |-> [len |-> 0],
   hs_sent |-> 0,
   hs_recved |-> 0,
   oscid |-> << >>,
   scid |-> [set |-> {ngtcp2_scid_init(0, << >>)}, used |-> {},
             last_seq |-> 0],
   dcid |-> [current |-> [ngtcp2_dcid_init(0, << >>) EXCEPT !.path = 0],
             unused |-> << >>, bound |-> << >>, retired |-> << >>],
   pv |-> << >>,
   callbacks |-> [get_new_connection_id |-> << >>, remove_connection_id |-> "OK",
                  path_validation |-> "OK", rand |-> [rv |-> "OK", data |-> 0]],
   log |-> [last_ts |-> 0],
   rcs |-> rcs_init,
   ccs |-> ccs_init,
   crypto |-> [key_update |-> [old_rx_ckm |-> FALSE, new_rx_ckm |-> FALSE,
                               new_tx_ckm |-> FALSE]],
   tx |-> [offset |-> 0, max_offset |-> 0, strmq |-> << >>],
   rx |-> [offset |-> 0, max_offset |-> settings.max_data,
           unsent_max_offset |-> settings.max_data, path_challenge |-> << >>],
   local |-> [settings |-> settings,
              bidi |-> [next_stream_id |-> IF server THEN 1 ELSE 0, max_streams |-> 0],
              uni |-> [next_stream_id |-> IF server THEN 3 ELSE 2, max_streams |-> 0]],
   remote |-> [settings |-> zero_settings,
               bidi |-> [idtr |-> {}, max_streams |-> settings.max_streams_bidi,
                         unsent_max_streams |-> settings.max_streams_bidi],
               uni |-> [idtr |-> {}, max_streams |-> settings.max_streams_uni,
                        unsent_max_streams |-> settings.max_streams_uni]],
   strms |-> << >>,
   user_data |-> << >>]

\* A function result: the connection afterwards and the return value.
Ret(c, r) == [conn |-> c, rv |-> r]

\* The element of a one-element set.  The({e : x \in {v}}) is e with x
\* naming the value of v, the way a C local names an intermediate result.
The(S) == CHOOSE x \in S : TRUE

(***************************************************************************)
(* Streams.                                                                *)
(***************************************************************************)
conn_local_stream(c, stream_id) == ((stream_id % 2) = 1) = c.server

bidi_stream(stream_id) == ((stream_id \div 2) % 2) = 0

\* ngtcp2_strm_init: a fresh stream object.
ngtcp2_strm_init(stream_id, max_rx_offset, max_tx_offset) ==
  [stream_id |-> stream_id,
   flags |-> {},
   tx |-> [offset |-> 0, max_offset |-> max_tx_offset, acked_offset |-> 0,
           streamfrq |-> << >>],
   rx |-> [last_offset |-> 0, max_offset |-> max_rx_offset,
           unsent_max_offset |-> max_rx_offset,
           rob |-> [rcvd |-> {}, data |-> {}]]]

\* conn.user_data stands for the application: it keeps the stream data the
\* recv_stream_data callback hands over.  The other callbacks leave no trace
\* in it.
conn_call(c, ev) ==
  IF ev.cb = "recv_stream_data" THEN [c EXCEPT !.user_data = Append(@, ev)] ELSE c

ngtcp2_conn_init_stream(c, stream_id) ==
  LET local_stream == conn_local_stream(c, stream_id)
      max_rx_offset ==
        IF bidi_stream(stream_id)
        THEN IF local_stream THEN c.local.settings.max_stream_data_bidi_local
             ELSE c.local.settings.max_stream_data_bidi_remote
        ELSE IF local_stream THEN 0 ELSE c.local.settings.max_stream_data_uni
      max_tx_offset ==
        IF bidi_stream(stream_id)
        THEN IF local_stream THEN c.remote.settings.max_stream_data_bidi_remote
             ELSE c.remote.settings.max_stream_data_bidi_local
        ELSE IF local_stream THEN c.remote.settings.max_stream_data_uni ELSE 0
  IN The({IF local_stream THEN c1
          ELSE conn_call(c1, [cb |-> "stream_open", stream_id |-> stream_id]) :
            c1 \in {[c EXCEPT !.strms =
                       (stream_id :> ngtcp2_strm_init(stream_id, max_rx_offset,
                                                      max_tx_offset)) @@ @]}})

ngtcp2_strm_shutdown(c, stream_id, flag) ==
  [c EXCEPT !.strms[stream_id].flags = @ \cup {flag}]

\* The n-th stream of its kind (ngtcp2_ord_stream_id, ngtcp2_conv.c).
ngtcp2_ord_stream_id(stream_id) == (stream_id \div 4) + 1

\* The opening of a bidirectional stream that lets one stream more through
\* than the limit allows.
ngtcp2_conn_open_bidi_stream_over(c) ==
  IF ngtcp2_ord_stream_id(c.local.bidi.next_stream_id) > c.local.bidi.max_streams + 1
  THEN Ret(c, "ERR_STREAM_ID_BLOCKED")
  ELSE The({Ret([c1 EXCEPT !.local.bidi.next_stream_id = @ + 4], "OK") :
              c1 \in {ngtcp2_conn_init_stream(c, c.local.bidi.next_stream_id)}})

ngtcp2_conn_open_bidi_stream(c) ==
  IF ngtcp2_ord_stream_id(c.local.bidi.next_stream_id) > c.local.bidi.max_streams
  THEN Ret(c, "ERR_STREAM_ID_BLOCKED")
  ELSE The({Ret([c1 EXCEPT !.local.bidi.next_stream_id = @ + 4], "OK") :
              c1 \in {ngtcp2_conn_init_stream(c, c.local.bidi.next_stream_id)}})

ngtcp2_conn_open_uni_stream(c) ==
  IF ngtcp2_ord_stream_id(c.local.uni.next_stream_id) > c.local.uni.max_streams
  THEN Ret(c, "ERR_STREAM_ID_BLOCKED")
  ELSE The({Ret([ngtcp2_strm_shutdown(c1, c.local.uni.next_stream_id, "SHUT_RD")
                   EXCEPT !.local.uni.next_stream_id = @ + 4], "OK") :
              c1 \in {ngtcp2_conn_init_stream(c, c.local.uni.next_stream_id)}})

(***************************************************************************)
(* Transport parameters.                                                   *)
(***************************************************************************)
conn_sync_stream_id_limit(c) ==
  [c EXCEPT !.local.bidi.max_streams = c.remote.settings.max_streams_bidi,
            !.local.uni.max_streams = c.remote.settings.max_streams_uni]

\* The client rejects parameters without a matching original_connection_id
\* after a Retry; ocid_ok says whether the parameters carry the right one.
conn_client_validate_transport_params(c, ocid_ok) ==
  IF "RECV_RETRY" \in c.flags /\ ~ocid_ok THEN "ERR_TRANSPORT_PARAM" ELSE "OK"

ngtcp2_conn_set_remote_transport_params(c, params, ocid_ok) ==
  IF ~c.server /\ conn_client_validate_transport_params(c, ocid_ok) # "OK"
  THEN Ret(c, "ERR_TRANSPORT_PARAM")
  ELSE LET c1 == conn_sync_stream_id_limit([c EXCEPT !.remote.settings = params])
       IN Ret([c1 EXCEPT !.tx.max_offset = c1.remote.settings.max_data,
                         !.flags = @ \cup {"TRANSPORT_PARAM_RECVED"}], "OK")

ngtcp2_conn_set_early_remote_transport_params(c, params) ==
  LET c1 == conn_sync_stream_id_limit([c EXCEPT !.remote.settings = params])
  IN [c1 EXCEPT !.tx.max_offset = c1.remote.settings.max_data]

(***************************************************************************)
(* Send-side flow control.                                                 *)
(***************************************************************************)
conn_fc_credits(c, strm) ==
  ngtcp2_min(usub(strm.tx.max_offset, strm.tx.offset),
             usub(c.tx.max_offset, c.tx.offset))

\* conn_enforce_flow_control as a library that lets every byte pass.
conn_enforce_flow_control_none(c, strm, len) == len

conn_enforce_flow_control(c, strm, len) ==
  ngtcp2_min(len, conn_fc_credits(c, strm))

\* rx.bw (the receive bandwidth estimate) is not modelled: bw.value = 0.
conn_should_send_max_data(c) ==
  \/ c.local.settings.max_data \div 2 < usub(c.rx.unsent_max_offset, c.rx.max_offset)
  \/ 0 >= usub(c.rx.max_offset, c.rx.offset)

conn_check_pkt_num_exhausted(c) ==
  \/ c.in_pktns.tx.last_pkt_num = NGTCP2_MAX_PKT_NUM
  \/ c.hs_pktns.tx.last_pkt_num = NGTCP2_MAX_PKT_NUM
  \/ c.pktns.tx.last_pkt_num = NGTCP2_MAX_PKT_NUM

(***************************************************************************)
(* Helper objects whose code lives outside the files under study: the ACK  *)
(* tracker (ngtcp2_acktr) and the retransmission buffer (ngtcp2_rtb).      *)
(* They are modelled by what the specification says about them.            *)
(***************************************************************************)
Max(S) == CHOOSE x \in S : \A y \in S : y <= x
Min(S) == CHOOSE x \in S : \A y \in S : x <= y

\* The ACK tracker remembers the received packet numbers still to be
\* acknowledged.  The delayed-ACK timer is treated as expired.
ngtcp2_acktr_add(acktr, pkt_num, active_ack) ==
  [acktr EXCEPT !.ents = @ \cup {pkt_num}, !.active_ack = @ \/ active_ack]

ngtcp2_acktr_require_active_ack(acktr) == acktr.active_ack

ngtcp2_acktr_commit_ack(acktr) ==
  [acktr EXCEPT !.active_ack = FALSE, !.immediate_ack = FALSE, !.rx_npkt = 0]

ngtcp2_acktr_immediate_ack(acktr) == [acktr EXCEPT !.immediate_ack = TRUE]

\* The retransmission buffer holds the sent packets awaiting acknowledgement.
\* Each entry owns the frames (frc) of its packet that are sent again when
\* the packet is lost.
ngtcp2_rtb_add(rtb, pkt_num, flags, frc) ==
  [rtb EXCEPT !.ents = @ \cup {[pkt_num |-> pkt_num, flags |-> flags, frc |-> frc]}]

ngtcp2_rtb_num_ack_eliciting(rtb) ==
  Cardinality({e \in rtb.ents : "ACK_ELICITING" \in e.flags})

\* rcs.loss_detection_timer is TRUE while the timer is armed: the time it
\* is armed for is not modelled.  No packet has a loss time (rtb.loss_time
\* stays 0), so the timer is armed for a handshake retransmission or for a
\* probe timeout.
ngtcp2_conn_set_loss_detection_timer(c) ==
  IF \/ ngtcp2_rtb_num_ack_eliciting(c.in_pktns.rtb) > 0
     \/ ngtcp2_rtb_num_ack_eliciting(c.hs_pktns.rtb) > 0
     \/ (~c.server /\ ~c.pktns.crypto.tx.ckm)
  THEN [c EXCEPT !.rcs.loss_detection_timer = TRUE]
  ELSE IF ngtcp2_rtb_num_ack_eliciting(c.pktns.rtb) = 0
  THEN [c EXCEPT !.rcs.loss_detection_timer = FALSE]
  ELSE [c EXCEPT !.rcs.loss_detection_timer = TRUE]

conn_on_pkt_sent(c, ns, pkt_num, flags, frc) ==
  ngtcp2_conn_set_loss_detection_timer(
    [c EXCEPT ![ns].rtb = ngtcp2_rtb_add(@, pkt_num, flags, frc)])

(***************************************************************************)
(* The congestion window.                                                  *)
(*                                                                         *)
(* Lengths are counted in the unit of the output buffer (see below): the   *)
(* length of a packet is the room its STREAM frames take.                  *)
(***************************************************************************)
RECURSIVE frames_len(_)
frames_len(frs) ==
  IF frs = << >> THEN 0
  ELSE (IF Head(frs).type = NGTCP2_FRAME_STREAM
        THEN 1 + 1 + (IF Head(frs).offset # 0 THEN 1 ELSE 0) + 1 + Head(frs).datalen
        ELSE 0) + frames_len(Tail(frs))

RECURSIVE rtb_bytes_in_flight(_)
rtb_bytes_in_flight(ents) ==
  IF ents = {} THEN 0
  ELSE LET e == CHOOSE e \in ents : TRUE
       IN frames_len(e.frc) + rtb_bytes_in_flight(ents \ {e})

\* ccs.bytes_in_flight is written by the retransmission buffers only: a
\* buffer adds the length of an entry it takes and subtracts it when the
\* entry leaves.  It is computed here from the entries of the three buffers.
ngtcp2_conn_get_bytes_in_flight(c) ==
  rtb_bytes_in_flight(c.in_pktns.rtb.ents) + rtb_bytes_in_flight(c.hs_pktns.rtb.ents)
    + rtb_bytes_in_flight(c.pktns.rtb.ents)

conn_cwnd_left(c) ==
  LET bytes_in_flight == ngtcp2_conn_get_bytes_in_flight(c)
      cwnd == IF c.pv # << >> /\ "FALLBACK_ON_FAILURE" \in c.pv[1].flags
              THEN NGTCP2_MIN_CWND
              ELSE c.ccs.cwnd
  IN IF bytes_in_flight >= cwnd THEN 0 ELSE cwnd - bytes_in_flight

\* A write call that does not constrain the buffer to the congestion window.
cwnd_destlen_open(left, cwnd) == left

\* destlen = ngtcp2_min(destlen, cwnd) in the unit of the output buffer: a
\* buffer of no bytes does not take the packet header.
cwnd_destlen(left, cwnd) == IF cwnd = 0 THEN -1 ELSE ngtcp2_min(left, cwnd)

(***************************************************************************)
(* Writing packets.                                                        *)
(*                                                                         *)
(* The output buffer is abstracted to |left|: -1 when not even the packet  *)
(* header fits, otherwise the number of bytes left for a STREAM or CRYPTO  *)
(* frame once the header and the control frames (which always fit) are     *)
(* written.  A written packet is a record of its type, packet number and   *)
(* frames.                                                                 *)
(***************************************************************************)
\* Result of a packet writer: connection, return value ("OK" is 0, "NWRITE"
\* a positive length), the packets written and *pdatalen.
WRet(c, r, pkts, n) == [conn |-> c, rv |-> r, pkts |-> pkts, pdatalen |-> n]

\* Length of the run of consecutive packet numbers ending at the largest.
RunLen(S, n) ==
  LET below == {k \in 0..n : \A j \in (n - k)..n : j \in S}
  IN Max(below) + 1

\* The entries of the tracker, the one with the largest packet numbers
\* first: each is a run of consecutive packet numbers, named by its largest
\* number and its length.
RECURSIVE acktr_ents(_)
acktr_ents(S) ==
  IF S = {} THEN << >>
  ELSE LET n == Max(S)
           len == RunLen(S, n)
       IN <<[pkt_num |-> n, len |-> len]>> \o acktr_ents({k \in S : k <= n - len})

\* ngtcp2_acktr_forget drops the entry ent and every entry after it.
ngtcp2_acktr_forget(acktr, ent) ==
  [acktr EXCEPT !.ents = {k \in @ : k > ent.pkt_num}]

\* The number of additional blocks an ACK frame holds.
NGTCP2_MAX_ACK_BLKS == 3

\* An ACK frame that acknowledges the first entry only.
ack_blks_none(ents) == << >>

\* The additional blocks of the ACK frame for the entries ents: the gap of
\* a block is counted from the smallest number of the block before.
ack_blks(ents) ==
  [i \in 1..ngtcp2_min(Len(ents) - 1, NGTCP2_MAX_ACK_BLKS) |->
     [gap |-> (ents[i].pkt_num - (ents[i].len - 1)) - ents[i + 1].pkt_num - 2,
      blklen |-> ents[i + 1].len - 1]]

\* The ACK frame for the tracked packets, if an ACK is due.  The frame is
\* returned in a sequence of length 0 or 1.  When the blocks reach
\* NGTCP2_MAX_ACK_BLKS the loop stops at the entry of the last block, and
\* the tracker forgets that entry and the ones after it.
conn_create_ack_frame(c, ns) ==
  LET acktr == c[ns].acktr
  IN IF ~ngtcp2_acktr_require_active_ack(acktr)
     THEN [conn |-> c, ackfr |-> << >>]
     ELSE IF acktr.ents = {}
     THEN [conn |-> [c EXCEPT ![ns].acktr = ngtcp2_acktr_commit_ack(@)],
           ackfr |-> << >>]
     ELSE The({
       The({
         [conn |-> IF Len(ents) - 1 >= NGTCP2_MAX_ACK_BLKS
                   THEN [c EXCEPT ![ns].acktr =
                           ngtcp2_acktr_forget(@, ents[NGTCP2_MAX_ACK_BLKS + 1])]
                   ELSE c,
          ackfr |-> <<[type |-> NGTCP2_FRAME_ACK,
                       largest_ack |-> ents[1].pkt_num,
                       first_ack_blklen |-> ents[1].len - 1,
                       num_blks |-> Len(blks),
                       blks |-> blks]>>] :
         blks \in {ack_blks(ents)}}) :
       ents \in {acktr_ents(acktr.ents)}})

\* Stream ids and offsets of the model are below 64, so every varint takes
\* one byte and the frame's length field takes one byte.
ngtcp2_pkt_stream_max_datalen(stream_id, offset, len, left) ==
  LET n == 1 + 1 + (IF offset # 0 THEN 1 ELSE 0)
  IN IF left <= n THEN -1
     ELSE ngtcp2_min(ngtcp2_min(len, 63), (left - n) - 1)

\* conn_write_pkt drops a queued control frame that has become obsolete.
frq_obsolete(c, fr) ==
  CASE fr.type = NGTCP2_FRAME_STOP_SENDING ->
         \/ fr.stream_id \notin DOMAIN c.strms
         \/ "SHUT_RD" \in c.strms[fr.stream_id].flags
    [] fr.type = NGTCP2_FRAME_MAX_STREAMS_BIDI ->
         fr.max_streams < c.remote.bidi.max_streams
    [] fr.type = NGTCP2_FRAME_MAX_STREAMS_UNI ->
         fr.max_streams < c.remote.uni.max_streams
    [] fr.type = NGTCP2_FRAME_MAX_STREAM_DATA ->
         \/ fr.stream_id \notin DOMAIN c.strms
         \/ "SHUT_RD" \in c.strms[fr.stream_id].flags
         \/ fr.max_stream_data < c.strms[fr.stream_id].rx.max_offset
    [] fr.type = NGTCP2_FRAME_MAX_DATA -> fr.max_data < c.rx.max_offset
    [] OTHER -> FALSE

\* The MAX_STREAMS part of conn_write_pkt: announce the streams the peer
\* may newly open.
conn_write_max_streams(c) ==
  LET b == c.remote.bidi.unsent_max_streams > c.remote.bidi.max_streams
      c1 == IF b
            THEN [conn_call(c, [cb |-> "extend_max_remote_streams_bidi",
                                max_streams |-> c.remote.bidi.unsent_max_streams])
                    EXCEPT !.remote.bidi.max_streams = c.remote.bidi.unsent_max_streams]
            ELSE c
      u == c1.remote.uni.unsent_max_streams > c1.remote.uni.max_streams
      c2 == IF u
            THEN [conn_call(c1, [cb |-> "extend_max_remote_streams_uni",
                                 max_streams |-> c1.remote.uni.unsent_max_streams])
                    EXCEPT !.remote.uni.max_streams = c1.remote.uni.unsent_max_streams]
            ELSE c1
  IN [conn |-> c2,
      frs |-> (IF b THEN <<[type |-> NGTCP2_FRAME_MAX_STREAMS_BIDI,
                            max_streams |-> c.remote.bidi.unsent_max_streams]>>
               ELSE << >>)
              \o (IF u THEN <<[type |-> NGTCP2_FRAME_MAX_STREAMS_UNI,
                               max_streams |-> c.remote.uni.unsent_max_streams]>>
                  ELSE << >>)]

\* tx.streamfrq holds the STREAM frames of a stream that wait to be sent
\* again, lowest offset first.
ngtcp2_strm_streamfrq_push(strm, fr) ==
  [strm EXCEPT !.tx.streamfrq =
     SelectSeq(@, LAMBDA g : g.offset <= fr.offset) \o <<fr>>
       \o SelectSeq(@, LAMBDA g : g.offset > fr.offset)]

\* ngtcp2_strm_streamfrq_pop takes the first waiting frame, cut to at most
\* left bytes; the rest of a cut frame stays at the front of the queue.
\* frs holds the frame, or nothing for NULL.
ngtcp2_strm_streamfrq_pop(strm, left) ==
  LET q == strm.tx.streamfrq
      fr == Head(q)
  IN IF q = << >> \/ (left = 0 /\ fr.datalen > 0)
     THEN [strm |-> strm, frs |-> << >>]
     ELSE IF fr.datalen > left
     THEN [strm |-> [strm EXCEPT !.tx.streamfrq =
                       <<[fr EXCEPT !.offset = @ + left, !.datalen = @ - left]>>
                         \o Tail(q)],
           frs |-> <<[fr EXCEPT !.datalen = left, !.fin = FALSE]>>]
     ELSE [strm |-> [strm EXCEPT !.tx.streamfrq = Tail(q)], frs |-> <<fr>>]

\* The room a STREAM frame takes in the packet: its header, the length of
\* its data and the data (the inverse of ngtcp2_pkt_stream_max_datalen).
stream_frame_len(fr) ==
  1 + 1 + (IF fr.offset # 0 THEN 1 ELSE 0) + 1 + fr.datalen

\* The inner loop of the tx.strmq loop of conn_write_pkt: the waiting STREAM
\* frames of the stream sid at the top of the queue are written as long as
\* they fit.  written is the id of the stream a frame was written of, or -1;
\* finish says that the loop over the queue ends (tx_strmq_finish).
RECURSIVE conn_write_streamfrq(_, _, _, _, _)
conn_write_streamfrq(c, sid, frs, left, written) ==
  LET strm == c.strms[sid]
      R(cx, f, l, w, fin) ==
        [conn |-> cx, frs |-> f, left |-> l, written |-> w, finish |-> fin]
  IN IF strm.tx.streamfrq = << >>
     THEN R([c EXCEPT !.tx.strmq = Tail(@)], frs, left, written, written # -1)
     ELSE The({
       IF n = -1
       THEN R(IF written # -1 THEN [c EXCEPT !.tx.strmq = Append(Tail(@), sid)] ELSE c,
              frs, left, written, TRUE)
       ELSE The({
         IF pop.frs = << >> THEN R(c, frs, left, written, TRUE)
         ELSE conn_write_streamfrq([c EXCEPT !.strms[sid] = pop.strm], sid,
                                   frs \o pop.frs,
                                   left - stream_frame_len(pop.frs[1]), sid) :
         pop \in {ngtcp2_strm_streamfrq_pop(strm, n)}}) :
       n \in {ngtcp2_pkt_stream_max_datalen(sid, Head(strm.tx.streamfrq).offset,
                                            left, left)}})

\* The tx.strmq loop of conn_write_pkt: every queued stream announces its
\* pending MAX_STREAM_DATA, sends its waiting STREAM frames again and leaves
\* the queue once none is left.
RECURSIVE conn_write_strmq(_, _, _, _)
conn_write_strmq(c, frs, left, written) ==
  IF c.tx.strmq = << >>
  THEN [conn |-> c, frs |-> frs, left |-> left, written |-> written]
  ELSE LET sid == Head(c.tx.strmq)
           strm == c.strms[sid]
           send == /\ "SHUT_RD" \notin strm.flags
                   /\ strm.rx.max_offset < strm.rx.unsent_max_offset
       IN The({
            IF w.finish
            THEN [conn |-> w.conn, frs |-> w.frs, left |-> w.left,
                  written |-> w.written]
            ELSE conn_write_strmq(w.conn, w.frs, w.left, w.written) :
            w \in {conn_write_streamfrq(
                     [c EXCEPT !.strms[sid].rx.max_offset =
                                  IF send THEN strm.rx.unsent_max_offset ELSE @],
                     sid,
                     IF send
                     THEN Append(frs, [type |-> NGTCP2_FRAME_MAX_STREAM_DATA,
                                       stream_id |-> sid,
                                       max_stream_data |-> strm.rx.unsent_max_offset])
                     ELSE frs,
                     left, written)}})

\* The local endpoint keeps NGTCP2_MIN_SCID_POOL_SIZE source connection
\* IDs the peer has not used yet.
NGTCP2_MIN_SCID_POOL_SIZE == 2

conn_required_num_new_connection_id(c) ==
  LET n == Cardinality(c.scid.set) - Cardinality(c.scid.used)
  IN IF n < NGTCP2_MIN_SCID_POOL_SIZE THEN NGTCP2_MIN_SCID_POOL_SIZE - n ELSE 0

\* conn.callbacks.get_new_connection_id is the sequence of answers the
\* application's callback gives to the calls to come, each an rv and a
\* connection ID; a call takes the first.
conn_call_get_new_connection_id(c, cidlen) ==
  LET ans == Head(c.callbacks.get_new_connection_id)
  IN [conn |-> [c EXCEPT !.callbacks.get_new_connection_id = Tail(@)],
      rv |-> IF ans.rv # "OK" THEN "ERR_CALLBACK_FAILURE" ELSE "OK",
      cid |-> ans.cid]

\* conn_enqueue_new_connection_id_loop as a library that passes over a
\* colliding connection ID and goes on with the next iteration.
RECURSIVE conn_enqueue_new_connection_id_skip(_, _)
conn_enqueue_new_connection_id_skip(c, need) ==
  IF need = 0 THEN Ret(c, "OK")
  ELSE The({
    IF g.rv # "OK" THEN Ret(g.conn, g.rv)
    ELSE IF Len(g.cid) # Len(c.oscid) THEN Ret(g.conn, "ERR_CALLBACK_FAILURE")
    ELSE IF \E s \in g.conn.scid.set : s.cid = g.cid
    THEN conn_enqueue_new_connection_id_skip(g.conn, need - 1)
    ELSE conn_enqueue_new_connection_id_skip(
           [g.conn EXCEPT !.scid.last_seq = @ + 1,
                          !.scid.set = @ \cup {ngtcp2_scid_init(
                                                 g.conn.scid.last_seq + 1, g.cid)},
                          !.pktns.tx.frq =
                             <<[type |-> NGTCP2_FRAME_NEW_CONNECTION_ID,
                                seq |-> g.conn.scid.last_seq + 1,
                                cid |-> g.cid]>> \o @],
           need - 1) :
    g \in {conn_call_get_new_connection_id(c, Len(c.oscid))}})

\* The loop of conn_enqueue_new_connection_id with need iterations to go.
RECURSIVE conn_enqueue_new_connection_id_loop(_, _)
conn_enqueue_new_connection_id_loop(c, need) ==
  IF need = 0 THEN Ret(c, "OK")
  ELSE The({
    IF g.rv # "OK" THEN Ret(g.conn, g.rv)
    ELSE IF Len(g.cid) # Len(c.oscid) THEN Ret(g.conn, "ERR_CALLBACK_FAILURE")
    ELSE IF \E s \in g.conn.scid.set : s.cid = g.cid
    THEN Ret(g.conn, "ERR_CALLBACK_FAILURE")
    ELSE conn_enqueue_new_connection_id_loop(
           [g.conn EXCEPT !.scid.last_seq = @ + 1,
                          !.scid.set = @ \cup {ngtcp2_scid_init(
                                                 g.conn.scid.last_seq + 1, g.cid)},
                          !.pktns.tx.frq =
                             <<[type |-> NGTCP2_FRAME_NEW_CONNECTION_ID,
                                seq |-> g.conn.scid.last_seq + 1,
                                cid |-> g.cid]>> \o @],
           need - 1) :
    g \in {conn_call_get_new_connection_id(c, Len(c.oscid))}})

conn_enqueue_new_connection_id(c) ==
  conn_enqueue_new_connection_id_loop(c, conn_required_num_new_connection_id(c))

\* conn_write_pkt writes one Short or 0-RTT packet.  data_strm is a stream
\* id, or -1 for NULL.
conn_write_pkt(c, left, type, data_strm, fin, datalen) ==
  IF type = NGTCP2_PKT_0RTT /\ ~c.early.ckm THEN WRet(c, "OK", << >>, -1)
  ELSE
  The({
  LET has_strm == data_strm # -1
      send_stream0 == has_strm /\ (ndatalen0 # 0 \/ datalen = 0)
      stream_blocked == has_strm /\ ~send_stream0
      pkt_num == c.pktns.tx.last_pkt_num + 1
      \* the frames after the ACK frame, and the connection once they are
      \* written; left1 is the room left and written the stream the
      \* tx.strmq loop has sent frames of
      finish(a, c3, frs, left1, written) ==
        The({
          The({
            The({
              LET c5 == [conn_on_pkt_sent(c3, "pktns", pkt_num, {"ACK_ELICITING"}, chain)
                           EXCEPT !.pktns.tx.frq = << >>]
                  c6 == IF send_stream
                        THEN [c5 EXCEPT !.strms[data_strm].tx.offset = @ + ndatalen,
                                        !.tx.offset = @ + ndatalen]
                        ELSE c5
                  c4 == IF chain = << >> THEN c3
                        ELSE IF send_stream /\ fin1
                        THEN ngtcp2_strm_shutdown(c6, data_strm, "SHUT_WR")
                        ELSE c6
              IN IF a.ackfr \o chain = << >>
                 THEN WRet(c3, IF stream_blocked THEN "ERR_STREAM_DATA_BLOCKED" ELSE "OK",
                           << >>, -1)
                 ELSE WRet([c4 EXCEPT !.pktns.tx.last_pkt_num = @ + 1], "NWRITE",
                           <<[type |-> type, pkt_num |-> pkt_num,
                              frames |-> a.ackfr \o chain]>>,
                           IF send_stream THEN ndatalen ELSE -1) :
                chain \in {frs \o
                           (IF send_stream
                            THEN <<[type |-> NGTCP2_FRAME_STREAM, stream_id |-> data_strm,
                                    offset |-> c3.strms[data_strm].tx.offset,
                                    datalen |-> ndatalen, fin |-> fin1]>>
                            ELSE << >>)}}) :
              send_stream \in {send_stream0
                                 /\ written \in {-1, data_strm}
                                 /\ ndatalen # -1
                                 /\ (ndatalen # 0 \/ datalen = 0)},
              fin1 \in {fin /\ ndatalen = datalen}}) :
            ndatalen \in {IF send_stream0 /\ written \in {-1, data_strm}
                          THEN ngtcp2_pkt_stream_max_datalen(data_strm,
                                 c3.strms[data_strm].tx.offset, ndatalen0, left1)
                          ELSE -1}})
  IN The({
       IF q.rv # "OK" THEN WRet(q.conn, q.rv, << >>, -1)
       ELSE The({
       IF left = -1 THEN WRet(c1, "OK", << >>, -1)
       ELSE The({
         The({
           The({
             The({finish(a, sq.conn, frq \o cryptofrs \o ms.frs \o sq.frs,
                         sq.left, sq.written) :
                    sq \in {conn_write_strmq(ms.conn, << >>, left, -1)}}) :
               ms \in {conn_write_max_streams([c2 EXCEPT !.pktns.crypto.tx.frq = 0])},
               frq \in {SelectSeq(c2.pktns.tx.frq, LAMBDA fr : ~frq_obsolete(c2, fr))},
               cryptofrs \in {[i \in 1..c2.pktns.crypto.tx.frq |->
                                 [type |-> NGTCP2_FRAME_CRYPTO]]}}) :
             c2 \in {IF a.ackfr # << >>
                     THEN [a.conn EXCEPT !.pktns.acktr = ngtcp2_acktr_commit_ack(@)]
                     ELSE a.conn}}) :
           a \in {conn_create_ack_frame(c1, "pktns")}}) :
       c1 \in {IF /\ \/ q.conn.pktns.tx.frq # << >>
                      \/ send_stream0
                      \/ conn_should_send_max_data(q.conn)
                   /\ q.conn.rx.unsent_max_offset > q.conn.rx.max_offset
               THEN [q.conn EXCEPT !.pktns.tx.frq =
                                <<[type |-> NGTCP2_FRAME_MAX_DATA,
                                   max_data |-> q.conn.rx.unsent_max_offset]>> \o @,
                              !.rx.max_offset = q.conn.rx.unsent_max_offset]
               ELSE q.conn}}) :
       q \in {IF c.oscid # << >> THEN conn_enqueue_new_connection_id(c)
              ELSE Ret(c, "OK")}}) :
    ndatalen0 \in {IF data_strm # -1
                   THEN conn_enforce_flow_control(c, c.strms[data_strm], datalen)
                   ELSE 0}})

\* Two writers in sequence into one buffer: the packets of both, and the
\* second writer's error if it failed.
WThen(r1, r2) ==
  WRet(r2.conn,
       IF r2.rv \notin {"OK", "NWRITE"} THEN r2.rv
       ELSE IF r1.pkts \o r2.pkts # << >> THEN "NWRITE" ELSE "OK",
       r1.pkts \o r2.pkts,
       r2.pdatalen)

\* The packet-number space a long or short packet type belongs to.
pktns_of(type) ==
  CASE type = NGTCP2_PKT_INITIAL -> "in_pktns"
    [] type = NGTCP2_PKT_HANDSHAKE -> "hs_pktns"
    [] OTHER -> "pktns"

\* conn_write_handshake_pkt writes an Initial or Handshake packet carrying
\* the pending CRYPTO data of its space, and an ACK if one is due.
conn_write_handshake_pkt(c, left, type) ==
  LET ns == pktns_of(type)
      pkt_num == c[ns].tx.last_pkt_num + 1
      cryptofrs == [i \in 1..c[ns].crypto.tx.frq |-> [type |-> NGTCP2_FRAME_CRYPTO]]
  IN IF ~c[ns].crypto.tx.ckm \/ c[ns].crypto.tx.frq = 0 \/ left = -1
     THEN WRet(c, "OK", << >>, -1)
     ELSE The({
       LET c2 == IF a.ackfr # << >>
                 THEN [a.conn EXCEPT ![ns].acktr = ngtcp2_acktr_commit_ack(@)]
                 ELSE a.conn
           c3 == conn_on_pkt_sent(c2, ns, pkt_num, {"ACK_ELICITING", "CRYPTO_PKT"},
                                  cryptofrs)
       IN WRet([c3 EXCEPT ![ns].tx.last_pkt_num = @ + 1], "NWRITE",
               <<[type |-> type, pkt_num |-> pkt_num,
                  frames |-> cryptofrs \o a.ackfr]>>, -1) :
       a \in {conn_create_ack_frame([c EXCEPT ![ns].crypto.tx.frq = 0], ns)}})

\* conn_write_handshake_ack_pkt writes an Initial or Handshake packet that
\* carries only an ACK frame.
conn_write_handshake_ack_pkt(c, left, type, require_padding) ==
  LET ns == pktns_of(type)
      immediate_ack == IF type = NGTCP2_PKT_INITIAL
                       THEN c.hs_pktns.crypto.tx.ckm
                       ELSE c.pktns.crypto.tx.ckm
      force_send == "FORCE_SEND_HANDSHAKE" \in c.flags
      pkt_num == c[ns].tx.last_pkt_num + 1
  IN IF ~c[ns].crypto.tx.ckm THEN WRet(c, "OK", << >>, -1)
     ELSE The({
       LET c2 == IF a.ackfr # << >>
                 THEN [a.conn EXCEPT ![ns].acktr = ngtcp2_acktr_commit_ack(@)]
                 ELSE a.conn
           c3 == IF require_padding \/ force_send
                 THEN conn_on_pkt_sent(c2, ns, pkt_num, {}, << >>)
                 ELSE c2
       IN IF (a.ackfr = << >> /\ ~force_send) \/ left = -1
          THEN WRet(a.conn, "OK", << >>, -1)
          ELSE WRet([c3 EXCEPT !.flags = @ \ {"FORCE_SEND_HANDSHAKE"},
                               ![ns].tx.last_pkt_num = @ + 1], "NWRITE",
                    <<[type |-> type, pkt_num |-> pkt_num, frames |-> a.ackfr]>>, -1) :
       a \in {conn_create_ack_frame(
                IF immediate_ack
                THEN [c EXCEPT ![ns].acktr = ngtcp2_acktr_immediate_ack(@)]
                ELSE c, ns)}})

conn_write_handshake_ack_pkts(c, left, require_padding) ==
  The({
    The({WThen(r1, r2) :
           r2 \in {conn_write_handshake_ack_pkt(
                    r1.conn,
                    IF require_padding /\ r1.rv = "OK"
                    THEN cwnd_destlen(left, conn_cwnd_left(r1.conn)) ELSE left,
                    NGTCP2_PKT_INITIAL, require_padding /\ r1.rv = "OK")}}) :
      r1 \in {IF c.hs_pktns.crypto.tx.ckm
              THEN conn_write_handshake_ack_pkt(c, left, NGTCP2_PKT_HANDSHAKE, FALSE)
              ELSE WRet(c, "OK", << >>, -1)}})

conn_write_handshake_pkts(c, left) ==
  The({
    The({WThen(r1, r2) :
           r2 \in {conn_write_handshake_pkt(r1.conn, left, NGTCP2_PKT_HANDSHAKE)}}) :
      r1 \in {conn_write_handshake_pkt(c, left, NGTCP2_PKT_INITIAL)}})

\* conn_write_single_frame_pkt writes a packet that carries the frame fr.
conn_write_single_frame_pkt(c, left, type, fr, rtb_flags) ==
  LET ns == pktns_of(type)
      pkt_num == c[ns].tx.last_pkt_num + 1
      c1 == IF fr.type = NGTCP2_FRAME_ACK
            THEN [c EXCEPT ![ns].acktr = ngtcp2_acktr_commit_ack(@)]
            ELSE c
      c2 == IF "ACK_ELICITING" \in rtb_flags
            THEN conn_on_pkt_sent(c1, ns, pkt_num, rtb_flags, <<fr>>)
            ELSE c1
  IN IF left = -1 THEN WRet(c, "OK", << >>, -1)
     ELSE WRet([c2 EXCEPT ![ns].tx.last_pkt_num = @ + 1], "NWRITE",
               <<[type |-> type, pkt_num |-> pkt_num, frames |-> <<fr>>]>>, -1)

conn_write_protected_ack_pkt(c, left) ==
  The({IF a.ackfr = << >> THEN WRet(a.conn, "OK", << >>, -1)
       ELSE conn_write_single_frame_pkt(a.conn, left, NGTCP2_PKT_SHORT,
                                        a.ackfr[1], {}) :
         a \in {conn_create_ack_frame(c, "pktns")}})

conn_write_server_handshake(c, left) ==
  The({IF r1.conn.pktns.crypto.tx.ckm
       THEN The({WThen(r1, r2) : r2 \in {conn_write_protected_ack_pkt(r1.conn, left)}})
       ELSE r1 :
         r1 \in {conn_write_handshake_pkts(c, left)}})

conn_handshake_remnants_left(c) ==
  \/ "HANDSHAKE_COMPLETED" \notin c.flags
  \/ ngtcp2_rtb_num_ack_eliciting(c.in_pktns.rtb) # 0
  \/ ngtcp2_rtb_num_ack_eliciting(c.hs_pktns.rtb) # 0
  \/ c.in_pktns.crypto.tx.frq # 0
  \/ c.hs_pktns.crypto.tx.frq # 0


(***************************************************************************)
(* Helper objects of the receive side whose code lives outside the files   *)
(* under study: the reassembly buffer (ngtcp2_rob), the stream-id tracker  *)
(* (ngtcp2_idtr) and the gap tracker (ngtcp2_gaptr).  A stream byte is     *)
(* identified by its offset in the stream.                                 *)
(***************************************************************************)
\* rcvd: the offsets the buffer has seen; data: the offsets whose bytes it
\* still holds.
ngtcp2_rob_first_gap_offset(rob) ==
  CHOOSE n \in 0..Cardinality(rob.rcvd) :
    n \notin rob.rcvd /\ \A m \in 0..(n - 1) : m \in rob.rcvd

ngtcp2_rob_push(rob, offset, datalen) ==
  [rcvd |-> rob.rcvd \cup (offset..(offset + datalen - 1)),
   data |-> rob.data \cup (offset..(offset + datalen - 1))]

ngtcp2_rob_remove_prefix(rob, offset) ==
  [rcvd |-> rob.rcvd \cup (0..(offset - 1)),
   data |-> rob.data \ (0..(offset - 1))]

\* The buffered bytes from offset up to the first gap.
ngtcp2_rob_data_at(rob, offset) ==
  LET g == ngtcp2_rob_first_gap_offset(rob)
  IN IF g <= offset THEN << >>
     ELSE [i \in 1..(g - offset) |->
             IF (offset + i - 1) \in rob.data THEN offset + i - 1 ELSE -1]

ngtcp2_rob_pop(rob, offset, datalen) ==
  [rob EXCEPT !.data = @ \ (offset..(offset + datalen - 1))]

ngtcp2_strm_rx_offset(strm) == ngtcp2_rob_first_gap_offset(strm.rx.rob)

ngtcp2_strm_recv_reordering(strm, offset, datalen) ==
  [strm EXCEPT !.rx.rob = ngtcp2_rob_push(@, offset, datalen)]

ngtcp2_strm_is_all_tx_data_acked(strm) == strm.tx.acked_offset = strm.tx.offset

\* which is "bidi" or "uni": the tracker of the peer's streams of that kind.
ngtcp2_idtr_open(c, which, stream_id) ==
  IF stream_id \in c.remote[which].idtr THEN Ret(c, "ERR_STREAM_IN_USE")
  ELSE Ret([c EXCEPT !.remote[which].idtr = @ \cup {stream_id}], "OK")

ngtcp2_gaptr_is_pushed(gaptr, n) == n \in gaptr

ngtcp2_gaptr_push(gaptr, n) == gaptr \cup {n}

(***************************************************************************)
(* Closing streams.                                                        *)
(***************************************************************************)
handle_max_remote_streams_extension(c, which) ==
  IF c.remote[which].unsent_max_streams < NGTCP2_MAX_STREAMS
  THEN [c EXCEPT !.remote[which].unsent_max_streams = @ + 1]
  ELSE c

ngtcp2_conn_close_stream(c, stream_id) ==
  The({
    LET c3 == IF ~conn_local_stream(c, stream_id)
              THEN handle_max_remote_streams_extension(c2,
                     IF bidi_stream(stream_id) THEN "bidi" ELSE "uni")
              ELSE c2
    IN [c3 EXCEPT !.tx.strmq = SelectSeq(@, LAMBDA s : s # stream_id)] :
    c2 \in {conn_call([c EXCEPT !.strms =
                         [s \in (DOMAIN c.strms) \ {stream_id} |-> c.strms[s]]],
                      [cb |-> "stream_close", stream_id |-> stream_id])}})

\* The closing that does not wait for the data the peer has yet to deliver.
ngtcp2_conn_close_stream_if_shut_rdwr_early(c, stream_id) ==
  LET strm == c.strms[stream_id]
  IN IF /\ {"SHUT_RD", "SHUT_WR"} \subseteq strm.flags
        /\ \/ {"SENT_RST", "RST_ACKED"} \subseteq strm.flags
           \/ "SENT_RST" \notin strm.flags /\ ngtcp2_strm_is_all_tx_data_acked(strm)
     THEN ngtcp2_conn_close_stream(c, stream_id)
     ELSE c

ngtcp2_conn_close_stream_if_shut_rdwr(c, stream_id) ==
  LET strm == c.strms[stream_id]
  IN IF /\ {"SHUT_RD", "SHUT_WR"} \subseteq strm.flags
        /\ \/ "RECV_RST" \in strm.flags
           \/ ngtcp2_rob_first_gap_offset(strm.rx.rob) = strm.rx.last_offset
        /\ \/ {"SENT_RST", "RST_ACKED"} \subseteq strm.flags
           \/ "SENT_RST" \notin strm.flags /\ ngtcp2_strm_is_all_tx_data_acked(strm)
     THEN ngtcp2_conn_close_stream(c, stream_id)
     ELSE c

(***************************************************************************)
(* Receiving stream data.                                                  *)
(***************************************************************************)
conn_initial_stream_rx_offset(c, stream_id) ==
  IF bidi_stream(stream_id)
  THEN IF conn_local_stream(c, stream_id)
       THEN c.local.settings.max_stream_data_bidi_local
       ELSE c.local.settings.max_stream_data_bidi_remote
  ELSE IF conn_local_stream(c, stream_id) THEN 0
       ELSE c.local.settings.max_stream_data_uni

conn_should_send_max_stream_data(c, strm) ==
  conn_initial_stream_rx_offset(c, strm.stream_id) \div 2
    < usub(strm.rx.unsent_max_offset, strm.rx.max_offset)

\* The check with the bytes already counted left out.
conn_max_data_violated_abs(c, datalen) == c.rx.max_offset < datalen

conn_max_data_violated(c, datalen) ==
  usub(c.rx.max_offset, c.rx.offset) < datalen

ngtcp2_conn_extend_max_offset(c, datalen) ==
  IF NGTCP2_MAX_VARINT < datalen \/ c.rx.unsent_max_offset > NGTCP2_MAX_VARINT - datalen
  THEN [c EXCEPT !.rx.unsent_max_offset = NGTCP2_MAX_VARINT]
  ELSE [c EXCEPT !.rx.unsent_max_offset = @ + datalen]

conn_extend_max_stream_offset(c, stream_id, datalen) ==
  The({
    LET strm == c1.strms[stream_id]
        queued == \E i \in DOMAIN c.tx.strmq : c.tx.strmq[i] = stream_id
    IN IF /\ strm.flags \cap {"SHUT_RD", "STOP_SENDING"} = {}
          /\ ~queued
          /\ conn_should_send_max_stream_data(c1, strm)
       THEN [c1 EXCEPT !.tx.strmq = Append(@, stream_id)]
       ELSE c1 :
    c1 \in {IF c.strms[stream_id].rx.unsent_max_offset <= NGTCP2_MAX_VARINT - datalen
            THEN [c EXCEPT !.strms[stream_id].rx.unsent_max_offset = @ + datalen]
            ELSE c}})

ngtcp2_conn_extend_max_stream_offset(c, stream_id, datalen) ==
  IF stream_id \notin DOMAIN c.strms THEN Ret(c, "ERR_STREAM_NOT_FOUND")
  ELSE Ret(conn_extend_max_stream_offset(c, stream_id, datalen), "OK")

conn_call_recv_stream_data(c, stream_id, fin, offset, data) ==
  conn_call(c, [cb |-> "recv_stream_data", stream_id |-> stream_id, fin |-> fin,
                offset |-> offset, data |-> data])

\* Hands the buffered bytes that have become contiguous to the application.
RECURSIVE conn_emit_pending_stream_data(_, _, _)
conn_emit_pending_stream_data(c, stream_id, rx_offset) ==
  LET strm == c.strms[stream_id]
  IN The({
       IF Len(data) = 0 THEN c
       ELSE The({conn_emit_pending_stream_data(c2, stream_id, rx1) :
                   c2 \in {[conn_call_recv_stream_data(c, stream_id,
                              "SHUT_RD" \in strm.flags
                                /\ rx_offset + Len(data) = strm.rx.last_offset,
                              rx_offset, data)
                             EXCEPT !.strms[stream_id].rx.rob =
                                      ngtcp2_rob_pop(@, rx_offset, Len(data))]},
                   rx1 \in {rx_offset + Len(data)}}) :
       data \in {ngtcp2_rob_data_at(strm.rx.rob, rx_offset)}})

\* The stream-id checks with the check of the local next stream id left
\* out.
conn_recv_stream_id_check_any_local(c, stream_id, uni_local) ==
  IF conn_local_stream(c, stream_id)
  THEN IF bidi_stream(stream_id) THEN "OK" ELSE uni_local
  ELSE IF c.remote[IF bidi_stream(stream_id) THEN "bidi" ELSE "uni"].max_streams
            < ngtcp2_ord_stream_id(stream_id)
       THEN "ERR_STREAM_LIMIT" ELSE "OK"

\* The stream-id checks STREAM and RESET_STREAM share; uni_local is the
\* error for a frame on a unidirectional stream this endpoint opened.
conn_recv_stream_id_check(c, stream_id, uni_local) ==
  IF bidi_stream(stream_id)
  THEN IF conn_local_stream(c, stream_id)
       THEN IF c.local.bidi.next_stream_id <= stream_id THEN "ERR_STREAM_STATE" ELSE "OK"
       ELSE IF c.remote.bidi.max_streams < ngtcp2_ord_stream_id(stream_id)
            THEN "ERR_STREAM_LIMIT" ELSE "OK"
  ELSE IF conn_local_stream(c, stream_id) THEN uni_local
       ELSE IF c.remote.uni.max_streams < ngtcp2_ord_stream_id(stream_id)
            THEN "ERR_STREAM_LIMIT" ELSE "OK"

\* No leading byte is cut off.
conn_recv_stream_ncut_none(rx_offset, fr_offset) == 0

\* The number of leading bytes of a frame the stream has already consumed.
conn_recv_stream_ncut(rx_offset, fr_offset) == rx_offset - fr_offset

\* The tail of conn_recv_stream: deliver the frame's new bytes in order, or
\* buffer them when they lie beyond the first gap.
conn_recv_stream_deliver(c, fr, rx_offset) ==
  LET sid == fr.stream_id
      datacnt == fr.datalen > 0
  IN IF fr.offset <= rx_offset
     THEN The({
       LET datalen == IF datacnt THEN fr.datalen - ncut ELSE 0
           rx1 == rx_offset + datalen
           data == [i \in 1..datalen |-> fr.offset + ncut + i - 1]
           fin == "SHUT_RD" \in c.strms[sid].flags /\ rx1 = c.strms[sid].rx.last_offset
       IN The({
            The({
              The({Ret(ngtcp2_conn_close_stream_if_shut_rdwr(c2, sid), "OK") :
                     c2 \in {IF fin \/ datalen # 0
                             THEN conn_emit_pending_stream_data(cd, sid, rx1)
                             ELSE c1}}) :
                cd \in {conn_call_recv_stream_data(c1, sid, fin, rx_offset, data)}}) :
              c1 \in {IF datacnt
                      THEN [c EXCEPT !.strms[sid].rx.rob =
                                       ngtcp2_rob_remove_prefix(@, rx1)]
                      ELSE c}}) :
       ncut \in {conn_recv_stream_ncut(rx_offset, fr.offset)}})
     ELSE The({Ret(ngtcp2_conn_close_stream_if_shut_rdwr(c3, sid), "OK") :
                 c3 \in {IF datacnt
                         THEN [c EXCEPT !.strms[sid] =
                                 ngtcp2_strm_recv_reordering(@, fr.offset, fr.datalen)]
                         ELSE c}})

\* The final-size rules with the check of frames without FIN left out.
conn_recv_stream_final_size_fin_only(strm, fin, fr_end_offset) ==
  fin /\ IF "SHUT_RD" \in strm.flags THEN strm.rx.last_offset # fr_end_offset
         ELSE strm.rx.last_offset > fr_end_offset

\* The final-size rules of conn_recv_stream: whether a frame that ends at
\* fr_end_offset, with or without FIN, contradicts what the stream knows.
conn_recv_stream_final_size(strm, fin, fr_end_offset) ==
  IF fin
  THEN IF "SHUT_RD" \in strm.flags THEN strm.rx.last_offset # fr_end_offset
       ELSE strm.rx.last_offset > fr_end_offset
  ELSE "SHUT_RD" \in strm.flags /\ strm.rx.last_offset < fr_end_offset

\* conn_recv_stream once the stream object exists: flow control, then the
\* final-size rules, then delivery.
conn_recv_stream_strm(c, fr) ==
  LET sid == fr.stream_id
      strm == c.strms[sid]
      fr_end_offset == fr.offset + fr.datalen
      counted == strm.rx.last_offset < fr_end_offset
      len == fr_end_offset - strm.rx.last_offset
      stopped == strm.flags \cap {"STOP_SENDING", "RECV_RST"} # {}
  IN IF strm.rx.max_offset < fr_end_offset THEN Ret(c, "ERR_FLOW_CONTROL")
     ELSE IF counted /\ conn_max_data_violated(c, len) THEN Ret(c, "ERR_FLOW_CONTROL")
     ELSE The({
       LET deliver(cx) == The({conn_recv_stream_deliver(v, fr, rx_offset) : v \in {cx}})
           close(cx) ==
             The({Ret(ngtcp2_conn_close_stream_if_shut_rdwr(v, sid), "OK") : v \in {cx}})
           c2 == ngtcp2_strm_shutdown(
                   [c1 EXCEPT !.strms[sid].rx.last_offset = fr_end_offset], sid, "SHUT_RD")
           c3 == [c1 EXCEPT !.strms[sid].rx.last_offset = ngtcp2_max(@, fr_end_offset)]
       IN IF conn_recv_stream_final_size(strm, fr.fin, fr_end_offset)
          THEN Ret(c1, "ERR_FINAL_SIZE")
          ELSE IF fr.fin
          THEN IF "SHUT_RD" \in strm.flags
               THEN IF stopped \/ rx_offset = fr_end_offset THEN Ret(c1, "OK")
                    ELSE deliver(c1)
               ELSE IF "STOP_SENDING" \in strm.flags THEN close(c2)
               ELSE IF fr_end_offset = rx_offset
               THEN close(conn_call_recv_stream_data(c2, sid, TRUE, rx_offset, << >>))
               ELSE deliver(c2)
          ELSE IF fr_end_offset <= rx_offset \/ stopped THEN Ret(c3, "OK")
               ELSE deliver(c3) :
       c1 \in {IF ~counted THEN c
               ELSE IF "STOP_SENDING" \in strm.flags
               THEN ngtcp2_conn_extend_max_offset([c EXCEPT !.rx.offset = @ + len], len)
               ELSE [c EXCEPT !.rx.offset = @ + len]},
       rx_offset \in {ngtcp2_strm_rx_offset(strm)}})

conn_recv_stream(c, fr) ==
  LET sid == fr.stream_id
      chk == conn_recv_stream_id_check(c, sid, "ERR_STREAM_STATE")
  IN IF chk # "OK" THEN Ret(c, chk)
     ELSE IF NGTCP2_MAX_VARINT - fr.datalen < fr.offset THEN Ret(c, "ERR_FLOW_CONTROL")
     ELSE IF sid \in DOMAIN c.strms THEN conn_recv_stream_strm(c, fr)
     ELSE IF conn_local_stream(c, sid) THEN Ret(c, "OK")
     ELSE The({
       IF o.rv # "OK" THEN Ret(c, "OK")
       ELSE The({conn_recv_stream_strm(c2, fr) :
                   c2 \in {IF bidi_stream(sid) THEN ngtcp2_conn_init_stream(o.conn, sid)
                           ELSE ngtcp2_strm_shutdown(
                                  ngtcp2_conn_init_stream(o.conn, sid), sid, "SHUT_WR")}}) :
       o \in {ngtcp2_idtr_open(c, IF bidi_stream(sid) THEN "bidi" ELSE "uni", sid)}})

\* The RESET_STREAM frame with the final size left at zero.
conn_reset_stream_zero(c, stream_id, app_error_code) ==
  [c EXCEPT !.pktns.tx.frq =
     <<[type |-> NGTCP2_FRAME_RESET_STREAM, stream_id |-> stream_id,
        app_error_code |-> app_error_code, final_size |-> 0]>> \o @]

\* conn_reset_stream puts a RESET_STREAM frame for the stream in front of
\* the frames waiting in pktns.tx.frq.
conn_reset_stream(c, stream_id, app_error_code) ==
  [c EXCEPT !.pktns.tx.frq =
     <<[type |-> NGTCP2_FRAME_RESET_STREAM, stream_id |-> stream_id,
        app_error_code |-> app_error_code,
        final_size |-> c.strms[stream_id].tx.offset]>> \o @]

\* ngtcp2_strm_streamfrq_clear drops the STREAM frames that wait to be sent
\* again.
ngtcp2_strm_streamfrq_clear(strm) == [strm EXCEPT !.tx.streamfrq = << >>]

\* conn_recv_stop_sending once the stream object exists.
conn_recv_stop_sending_strm(c, fr) ==
  LET sid == fr.stream_id
      strm == c.strms[sid]
  IN IF "SHUT_WR" \in strm.flags /\ ngtcp2_strm_is_all_tx_data_acked(strm)
     THEN Ret(c, "OK")
     ELSE The({
       Ret(ngtcp2_conn_close_stream_if_shut_rdwr(
             [c1 EXCEPT !.strms[sid] =
                ngtcp2_strm_streamfrq_clear(
                  [@ EXCEPT !.flags = @ \cup {"SHUT_WR", "SENT_RST"}])], sid), "OK") :
       c1 \in {conn_reset_stream(c, sid, fr.app_error_code)}})

conn_recv_stop_sending(c, fr) ==
  LET sid == fr.stream_id
      local_stream == conn_local_stream(c, sid)
      bidi == bidi_stream(sid)
      chk == IF bidi
             THEN IF local_stream
                  THEN IF c.local.bidi.next_stream_id <= sid
                       THEN "ERR_STREAM_STATE" ELSE "OK"
                  ELSE IF c.remote.bidi.max_streams < ngtcp2_ord_stream_id(sid)
                       THEN "ERR_STREAM_LIMIT" ELSE "OK"
             ELSE IF ~local_stream \/ c.local.uni.next_stream_id <= sid
                  THEN "ERR_STREAM_STATE" ELSE "OK"
  IN IF chk # "OK" THEN Ret(c, chk)
     ELSE IF sid \in DOMAIN c.strms THEN conn_recv_stop_sending_strm(c, fr)
     ELSE IF local_stream THEN Ret(c, "OK")
     ELSE The({
       IF o.rv # "OK" THEN Ret(c, "OK")
       ELSE The({conn_recv_stop_sending_strm(c2, fr) :
                   c2 \in {ngtcp2_conn_init_stream(o.conn, sid)}}) :
       o \in {ngtcp2_idtr_open(c, IF bidi THEN "bidi" ELSE "uni", sid)}})

conn_call_stream_reset(c, stream_id, final_size) ==
  conn_call(c, [cb |-> "stream_reset", stream_id |-> stream_id,
                final_size |-> final_size])

conn_recv_reset_stream(c, fr) ==
  LET sid == fr.stream_id
      which == IF bidi_stream(sid) THEN "bidi" ELSE "uni"
      chk == conn_recv_stream_id_check(c, sid, "ERR_PROTO")
      strm == c.strms[sid]
      datalen == fr.final_size - strm.rx.last_offset
  IN IF chk # "OK" THEN Ret(c, chk)
     ELSE IF NGTCP2_MAX_VARINT < fr.final_size THEN Ret(c, "ERR_FLOW_CONTROL")
     ELSE IF sid \notin DOMAIN c.strms
     THEN IF conn_local_stream(c, sid) THEN Ret(c, "OK")
          ELSE IF \/ conn_initial_stream_rx_offset(c, sid) < fr.final_size
                  \/ conn_max_data_violated(c, fr.final_size)
          THEN Ret(c, "ERR_FLOW_CONTROL")
          ELSE The({
            IF o.rv # "OK" THEN Ret(c, "OK")
            ELSE The({
              The({Ret(handle_max_remote_streams_extension(n2, which), "OK") :
                     n2 \in {conn_call_stream_reset(n1, sid, fr.final_size)}}) :
                n1 \in {ngtcp2_conn_extend_max_offset(
                          [o.conn EXCEPT !.rx.offset = @ + fr.final_size],
                          fr.final_size)}}) :
            o \in {ngtcp2_idtr_open(c, which, sid)}})
     ELSE IF "SHUT_RD" \in strm.flags /\ strm.rx.last_offset # fr.final_size
     THEN Ret(c, "ERR_FINAL_SIZE")
     ELSE IF "SHUT_RD" \notin strm.flags /\ strm.rx.last_offset > fr.final_size
     THEN Ret(c, "ERR_FINAL_SIZE")
     ELSE IF strm.rx.max_offset < fr.final_size \/ conn_max_data_violated(c, datalen)
     THEN Ret(c, "ERR_FLOW_CONTROL")
     ELSE The({
       The({
         The({Ret(ngtcp2_conn_close_stream_if_shut_rdwr(c3, sid), "OK") :
                c3 \in {[c2 EXCEPT !.strms[sid].rx.last_offset = fr.final_size,
                                   !.strms[sid].flags = @ \cup {"SHUT_RD", "RECV_RST"}]}}) :
           c2 \in {ngtcp2_conn_extend_max_offset(c1, datalen)}}) :
         c1 \in {[(IF "RECV_RST" \notin strm.flags
                   THEN conn_call_stream_reset(c, sid, fr.final_size) ELSE c)
                    EXCEPT !.rx.offset = @ + datalen]}})

(***************************************************************************)
(* Receiving packets.                                                      *)
(*                                                                         *)
(* A received packet is a record: its type, the packet number pkt_num the  *)
(* peer gave it, the number of bytes pkt_numlen that number is truncated   *)
(* to on the wire, whether the reserved header bits are zero (rsv_ok),     *)
(* whether it is protected with the keys of its space (auth), whether the  *)
(* datagram ends with the stateless-reset token of the connection (sr),    *)
(* and its frames.  A frame that does not decode is the pseudo frame       *)
(* FRAME_MALFORMED.                                                        *)
(***************************************************************************)
NGTCP2_NUM_IMMEDIATE_ACK_PKT == 2

pkt_num_bits(pkt_numlen) == pkt_numlen * PKT_NUM_BYTE_BITS

\* pkt_num is the truncated number read from the wire, n its width in bits.
ngtcp2_pkt_adjust_pkt_num(max_pkt_num, pkt_num, n) ==
  LET k == IF max_pkt_num = NGTCP2_MAX_PKT_NUM THEN max_pkt_num ELSE max_pkt_num + 1
      u == k - (k % (2 ^ n))
      a == u + pkt_num
      b == (u + 2 ^ n) + pkt_num
      a1 == IF k < a THEN a - k ELSE k - a
      b1 == IF k < b THEN b - k ELSE k - b
  IN IF a1 < b1 THEN a ELSE b

ngtcp2_pkt_validate_ack(fr) ==
  IF fr.largest_ack < fr.first_ack_blklen THEN "ERR_ACK_FRAME" ELSE "OK"

ngtcp2_pkt_verify_reserved_bits(rsv_ok) == IF rsv_ok THEN "OK" ELSE "ERR_PROTO"

\* A receiver that keeps no record of the packet numbers it has seen.
pktns_pkt_num_is_duplicate_never(c, ns, pkt_num) == FALSE

pktns_pkt_num_is_duplicate(c, ns, pkt_num) ==
  ngtcp2_gaptr_is_pushed(c[ns].rx.pngap, pkt_num)

pktns_commit_recv_pkt_num(c, ns, pkt_num) ==
  LET c1 == IF c[ns].rx.max_pkt_num + 1 # pkt_num
            THEN [c EXCEPT ![ns].acktr = ngtcp2_acktr_immediate_ack(@)]
            ELSE c
  IN [c1 EXCEPT ![ns].rx.max_pkt_num = ngtcp2_max(@, pkt_num),
                ![ns].rx.pngap = ngtcp2_gaptr_push(@, pkt_num)]

ngtcp2_conn_sched_ack(c, ns, pkt_num, active_ack) ==
  [c EXCEPT ![ns].acktr = ngtcp2_acktr_add(@, pkt_num, active_ack)]

\* The bookkeeping at the end of every successfully processed packet.
conn_recv_pkt_commit(c, ns, pkt_num, require_ack) ==
  The({
    LET c2 == IF require_ack
              THEN [c1 EXCEPT ![ns].acktr.rx_npkt = @ + 1,
                              ![ns].acktr.immediate_ack =
                                 @ \/ (c1[ns].acktr.rx_npkt + 1
                                         >= NGTCP2_NUM_IMMEDIATE_ACK_PKT)]
              ELSE c1
    IN ngtcp2_conn_sched_ack(c2, ns, pkt_num, require_ack) :
    c1 \in {pktns_commit_recv_pkt_num(c, ns, pkt_num)}})

\* A retransmission buffer that remembers the latest acknowledgement
\* instead of the largest.
ngtcp2_rtb_recv_ack_latest(rtb, fr) ==
  [ents |-> {e \in rtb.ents :
               ~(fr.largest_ack - fr.first_ack_blklen <= e.pkt_num
                 /\ e.pkt_num <= fr.largest_ack)},
   largest_acked_tx_pkt_num |-> fr.largest_ack]

\* The retransmission buffer drops the acknowledged packets and remembers
\* the largest acknowledged packet number.
ngtcp2_rtb_recv_ack(rtb, fr) ==
  [ents |-> {e \in rtb.ents :
               ~(fr.largest_ack - fr.first_ack_blklen <= e.pkt_num
                 /\ e.pkt_num <= fr.largest_ack)},
   largest_acked_tx_pkt_num |-> ngtcp2_max(rtb.largest_acked_tx_pkt_num, fr.largest_ack)]

\* The packets an ACK frame newly acknowledges: the entries
\* ngtcp2_rtb_recv_ack removes.
ngtcp2_rtb_num_acked(rtb, fr) ==
  Cardinality(rtb.ents \ ngtcp2_rtb_recv_ack(rtb, fr).ents)

\* Loss detection by the packet and the time threshold is not modelled: no
\* packet is declared lost, and nothing is rescheduled.
ngtcp2_conn_detect_lost_pkt(c, ns) == Ret(c, "OK")

\* conn_recv_ack without the reset of the recovery counters.
conn_recv_ack_keep(c, ns, fr) ==
  IF ngtcp2_pkt_validate_ack(fr) # "OK" THEN Ret(c, ngtcp2_pkt_validate_ack(fr))
  ELSE The({IF num_acked = 0 THEN Ret(c1, "OK")
            ELSE Ret(ngtcp2_conn_set_loss_detection_timer(c1), "OK") :
            c1 \in {[c EXCEPT ![ns].rtb = ngtcp2_rtb_recv_ack(@, fr)]},
            num_acked \in {ngtcp2_rtb_num_acked(c[ns].rtb, fr)}})

conn_recv_ack(c, ns, fr) ==
  IF ngtcp2_pkt_validate_ack(fr) # "OK" THEN Ret(c, ngtcp2_pkt_validate_ack(fr))
  ELSE The({IF num_acked = 0 THEN Ret(c1, "OK")
            ELSE IF d.rv # "OK" THEN d
            ELSE Ret(ngtcp2_conn_set_loss_detection_timer(
                       [d.conn EXCEPT !.rcs.crypto_count = 0,
                                      !.rcs.pto_count = 0,
                                      !.rcs.probe_pkt_left = 0]), "OK") :
            c1 \in {[c EXCEPT ![ns].rtb = ngtcp2_rtb_recv_ack(@, fr)]},
            num_acked \in {ngtcp2_rtb_num_acked(c[ns].rtb, fr)},
            d \in {ngtcp2_conn_detect_lost_pkt(
                     [c EXCEPT ![ns].rtb = ngtcp2_rtb_recv_ack(@, fr)], ns)}})

conn_recv_max_data(c, fr) ==
  [c EXCEPT !.tx.max_offset = ngtcp2_max(@, fr.max_data)]

conn_recv_max_stream_data(c, fr) ==
  LET sid == fr.stream_id
      chk == IF bidi_stream(sid)
             THEN conn_recv_stream_id_check(c, sid, "ERR_STREAM_STATE")
             ELSE IF ~conn_local_stream(c, sid) \/ c.local.uni.next_stream_id <= sid
                  THEN "ERR_STREAM_STATE" ELSE "OK"
      update(c1) ==
        IF c1.strms[sid].tx.max_offset < fr.max_stream_data
        THEN Ret(conn_call([c1 EXCEPT !.strms[sid].tx.max_offset = fr.max_stream_data],
                           [cb |-> "extend_max_stream_data", stream_id |-> sid,
                            max_data |-> fr.max_stream_data]), "OK")
        ELSE Ret(c1, "OK")
  IN IF chk # "OK" THEN Ret(c, chk)
     ELSE IF sid \in DOMAIN c.strms THEN update(c)
     ELSE IF conn_local_stream(c, sid) THEN Ret(c, "OK")
     ELSE The({
       IF o.rv # "OK" THEN Ret(c, "OK")
       ELSE The({update(c1) : c1 \in {ngtcp2_conn_init_stream(o.conn, sid)}}) :
       o \in {ngtcp2_idtr_open(c, IF bidi_stream(sid) THEN "bidi" ELSE "uni", sid)}})

conn_recv_max_streams(c, fr) ==
  LET n == ngtcp2_min(fr.max_streams, NGTCP2_MAX_STREAMS)
      which == IF fr.type = NGTCP2_FRAME_MAX_STREAMS_BIDI THEN "bidi" ELSE "uni"
  IN IF fr.max_streams > NGTCP2_MAX_STREAMS THEN Ret(c, "ERR_STREAM_LIMIT")
     ELSE IF c.local[which].max_streams < n
     THEN Ret(conn_call([c EXCEPT !.local[which].max_streams = n],
                        [cb |-> "extend_max_local_streams", which |-> which,
                         max_streams |-> n]), "OK")
     ELSE Ret(c, "OK")

conn_recv_connection_close(c) == [c EXCEPT !.state = NGTCP2_CS_DRAINING]

\* Every CRYPTO frame of the model carries the one chunk at offset 0.
\* The recv_crypto_data callback hands the bytes to the TLS stack; fr.tls
\* is what the stack makes of them: 0, NGTCP2_ERR_CRYPTO, NGTCP2_ERR_PROTO
\* or NGTCP2_ERR_CALLBACK_FAILURE.
conn_call_recv_crypto_data(c, ns, fr) ==
  IF fr.tls = "OK" THEN Ret(conn_call(c, [cb |-> "recv_crypto_data", level |-> ns]), "OK")
  ELSE Ret(c, fr.tls)

\* A conn_recv_crypto that closes the connection when the callback fails.
conn_recv_crypto_closing(c, ns, fr) ==
  IF 1 <= c[ns].crypto.strm.rx_offset THEN Ret(c, "OK")
  ELSE The({IF r.rv = "OK" THEN r
            ELSE Ret([r.conn EXCEPT !.state = NGTCP2_CS_CLOSING], r.rv) :
              r \in {conn_call_recv_crypto_data(
                       [c EXCEPT ![ns].crypto.strm.rx_offset = 1], ns, fr)}})

conn_recv_crypto(c, ns, fr) ==
  IF 1 <= c[ns].crypto.strm.rx_offset THEN Ret(c, "OK")
  ELSE conn_call_recv_crypto_data([c EXCEPT ![ns].crypto.strm.rx_offset = 1], ns, fr)

\* The result of processing the frames of a packet: the connection, the
\* error ("OK" if none) and whether the packet must be acknowledged.
FRet(c, r, require_ack) == [conn |-> c, rv |-> r, require_ack |-> require_ack]

(***************************************************************************)
(* Destination connection IDs and the path validator.                      *)
(***************************************************************************)
\* conn_compute_pto: the current probe timeout.
conn_compute_pto(c) ==
  LET var == ngtcp2_max(4 * c.rcs.rttvar, NGTCP2_GRANULARITY)
      max_ack_delay == IF "HANDSHAKE_COMPLETED" \in c.flags
                       THEN c.remote.settings.max_ack_delay
                       ELSE NGTCP2_DEFAULT_MAX_ACK_DELAY
  IN (c.rcs.smoothed_rtt + var + max_ack_delay) * (2 ^ c.rcs.pto_count)

\* The time a retired connection ID is kept when the probe timeout is left
\* out of account.
conn_retired_timeout_fixed(c) == 6 * NGTCP2_DEFAULT_INITIAL_RTT

\* The time a retired connection ID is kept.
conn_retired_timeout(c) ==
  ngtcp2_max(conn_compute_pto(c), 6 * NGTCP2_DEFAULT_INITIAL_RTT)

\* ngtcp2_pv_new: a validator of the path of dcid.  It has sent no
\* PATH_CHALLENGE yet, and its deadline is counted from the first one.
ngtcp2_pv_new(dcid, timeout, flags) ==
  [dcid |-> dcid, fallback_dcid |-> ngtcp2_dcid_init(0, << >>), flags |-> flags,
   timeout |-> timeout, started_ts |-> UINT64_MAX, loss_count |-> 0,
   ents |-> << >>]

ngtcp2_pv_ensure_start(pv, ts) ==
  IF pv.started_ts = UINT64_MAX THEN [pv EXCEPT !.started_ts = ts] ELSE pv

\* The outer deadline of the validation has passed.
ngtcp2_pv_validation_timed_out(pv, ts) == pv.started_ts + pv.timeout <= ts

\* The challenges whose time is over are given up; the backoff grows when
\* there is one.
ngtcp2_pv_handle_entry_expiry(pv, ts) ==
  IF pv.ents = << >> \/ pv.ents[1].expiry >= ts THEN pv
  ELSE [pv EXCEPT !.loss_count = @ + 1,
                  !.ents = SelectSeq(@, LAMBDA ent : ent.expiry >= ts)]

ngtcp2_pv_full(pv) == ngtcp2_ringbuf_full(pv.ents, NGTCP2_PV_MAX_ENTRIES)

ngtcp2_pv_add_entry(pv, data, expiry) ==
  [pv EXCEPT !.ents = ngtcp2_ringbuf_push_back(@, NGTCP2_PV_MAX_ENTRIES,
                                               [data |-> data, expiry |-> expiry])]

\* A PATH_RESPONSE validates the path when it arrives on the path under
\* validation and echoes an outstanding challenge.  One that echoes none
\* is passed over.
ngtcp2_pv_validate(pv, path, data) ==
  IF path # pv.dcid.path THEN "ERR_PATH_VALIDATION_FAILED"
  ELSE IF \E i \in DOMAIN pv.ents : pv.ents[i].data = data THEN "OK"
  ELSE "ERR_INVALID_ARGUMENT"

\* ngtcp2_dcid_verify_uniqueness: a sequence number names one connection
\* ID and a connection ID has one sequence number.
ngtcp2_dcid_verify_uniqueness(dcid, seq, cid) ==
  IF (dcid.seq = seq) # (dcid.cid = cid) THEN "ERR_PROTO" ELSE "OK"

\* conn_retire_dcid moves dcid to the ring of retired connection IDs,
\* which gives up its oldest entry when it is full, and queues a
\* RETIRE_CONNECTION_ID frame.
conn_retire_dcid(c, dcid) ==
  LET rb == IF ngtcp2_ringbuf_full(c.dcid.retired, NGTCP2_MAX_DCID_RETIRED_SIZE)
            THEN ngtcp2_ringbuf_pop_front(c.dcid.retired)
            ELSE c.dcid.retired
  IN [c EXCEPT !.dcid.retired =
                  ngtcp2_ringbuf_push_back(rb, NGTCP2_MAX_DCID_RETIRED_SIZE,
                                           [dcid EXCEPT !.ts_retired = c.log.last_ts]),
               !.pktns.tx.frq = <<[type |-> NGTCP2_FRAME_RETIRE_CONNECTION_ID,
                                   seq |-> dcid.seq]>> \o @]

\* conn_stop_pv ends the validation that is running, if any.
conn_stop_pv(c) ==
  IF c.pv = << >> THEN c
  ELSE [(IF "RETIRE_DCID_ON_FINISH" \in c.pv[1].flags
         THEN conn_retire_dcid(c, c.pv[1].dcid) ELSE c) EXCEPT !.pv = << >>]

\* conn.callbacks.path_validation is the value the application's callback
\* returns.
conn_call_path_validation(c, path, res) ==
  Ret(conn_call(c, [cb |-> "path_validation", path |-> path, res |-> res]),
      IF c.callbacks.path_validation # "OK" THEN "ERR_CALLBACK_FAILURE" ELSE "OK")

\* conn_on_path_validation_failed: the validation pv of the connection has
\* failed.
conn_on_path_validation_failed(c) ==
  LET pv == [c.pv[1] EXCEPT !.flags = @ \cup {"RETIRE_DCID_ON_FINISH"}]
  IN The({
       IF r.rv # "OK" THEN r
       ELSE Ret(conn_stop_pv(
                  IF "FALLBACK_ON_FAILURE" \in pv.flags
                  THEN [r.conn EXCEPT !.dcid.current = pv.fallback_dcid]
                  ELSE r.conn), "OK") :
       r \in {IF "DONT_CARE" \notin pv.flags
              THEN conn_call_path_validation([c EXCEPT !.pv = <<pv>>],
                                             pv.dcid.path, "FAILURE")
              ELSE Ret([c EXCEPT !.pv = <<pv>>], "OK")}})

conn_recv_path_challenge(c, path, fr) ==
  [c EXCEPT !.rx.path_challenge =
              ngtcp2_ringbuf_push_front(@, MaxPathChallenge,
                                        [path |-> path, data |-> fr.data])]

\* conn_recv_path_response: a PATH_RESPONSE that validates the path ends
\* the validation.  After a migration a second validator takes over, which
\* probes the path the connection has left.
conn_recv_path_response(c, path, fr) ==
  IF c.pv = << >> THEN Ret(c, "OK")
  ELSE
  LET res == ngtcp2_pv_validate(c.pv[1], path, fr.data)
      pv == [c.pv[1] EXCEPT !.flags = @ \ {"RETIRE_DCID_ON_FINISH"}]
      npv == IF "FALLBACK_ON_FAILURE" \in pv.flags
             THEN <<ngtcp2_pv_new(pv.fallback_dcid, conn_retired_timeout(c),
                                  {"RETIRE_DCID_ON_FINISH"})>>
             ELSE << >>
      c1 == [c EXCEPT !.pv = <<pv>>]
      c2 == IF "DONT_CARE" \notin pv.flags /\ "FALLBACK_ON_FAILURE" \notin pv.flags
            THEN [conn_retire_dcid(c1, c1.dcid.current) EXCEPT !.dcid.current = pv.dcid]
            ELSE c1
  IN IF res = "ERR_PATH_VALIDATION_FAILED" THEN conn_on_path_validation_failed(c)
     ELSE IF res # "OK" THEN Ret(c, "OK")
     ELSE The({
       IF r.rv # "OK" THEN r
       ELSE Ret([conn_stop_pv(r.conn) EXCEPT !.pv = npv], "OK") :
       r \in {IF "DONT_CARE" \notin pv.flags
              THEN conn_call_path_validation(c2, pv.dcid.path, "SUCCESS")
              ELSE Ret(c2, "OK")}})

\* conn_recv_new_connection_id: the peer issues a connection ID, which
\* joins the unused ones unless it is known or the ring is full.
conn_recv_new_connection_id(c, fr) ==
  LET known == <<c.dcid.current>>
                 \o (IF c.pv = << >> THEN << >> ELSE <<c.pv[1].dcid>>)
                 \o c.dcid.bound \o c.dcid.unused
      \* the first connection ID the frame contradicts or repeats
      hit == {i \in DOMAIN known :
                \/ ngtcp2_dcid_verify_uniqueness(known[i], fr.seq, fr.cid) # "OK"
                \/ known[i].cid = fr.cid}
  IN IF Len(c.dcid.current.cid) = 0 THEN Ret(c, "ERR_PROTO")
     ELSE IF hit # {}
     THEN Ret(c, ngtcp2_dcid_verify_uniqueness(known[Min(hit)], fr.seq, fr.cid))
     ELSE IF Len(c.dcid.unused) >= NGTCP2_MAX_DCID_POOL_SIZE THEN Ret(c, "OK")
     ELSE Ret([c EXCEPT !.dcid.unused =
                          ngtcp2_ringbuf_push_back(@, NGTCP2_MAX_DCID_POOL_SIZE,
                                                   ngtcp2_dcid_init(fr.seq, fr.cid))],
              "OK")

conn_path_validation_in_progress(c, path) ==
  /\ c.pv # << >>
  /\ "DONT_CARE" \notin c.pv[1].flags
  /\ c.pv[1].dcid.path = path

\* conn_reset_congestion_state: the recovery state starts anew.  The
\* bandwidth estimate and the congestion window are not modelled.
conn_reset_congestion_state(c) == [c EXCEPT !.rcs = rcs_init]

\* conn_recv_non_probing_pkt_on_new_path: the peer has moved to path.  The
\* server follows it at once with a connection ID bound to the path or an
\* unused one, and starts to validate the path.
conn_recv_non_probing_pkt_on_new_path(c, path) ==
  LET has_pv == c.pv # << >>
      fallback == has_pv /\ "FALLBACK_ON_FAILURE" \in c.pv[1].flags
      len == Len(c.dcid.bound)
      found == {i \in 1..len : c.dcid.bound[i].path = path}
      i == IF found = {} THEN len + 1 ELSE Min(found)
      dcid == IF found = {} THEN c.dcid.unused[1] ELSE c.dcid.bound[i]
      c1 == conn_reset_congestion_state(c)
      pv == [ngtcp2_pv_new(dcid, conn_retired_timeout(c1),
                           {"FALLBACK_ON_FAILURE", "RETIRE_DCID_ON_FINISH"})
               EXCEPT !.dcid.path = path,
                      !.fallback_dcid = IF fallback THEN c.pv[1].fallback_dcid
                                        ELSE c.dcid.current]
      c2 == [conn_stop_pv([c1 EXCEPT !.dcid.current = pv.dcid]) EXCEPT !.pv = <<pv>>]
  IN IF fallback /\ c.pv[1].fallback_dcid.path = path
     THEN Ret(conn_stop_pv([c EXCEPT !.dcid.current = c.pv[1].fallback_dcid]), "OK")
     ELSE IF found = {} /\ c.dcid.unused = << >> THEN Ret(c, "ERR_CONN_ID_BLOCKED")
     ELSE IF found = {}
     THEN Ret([c2 EXCEPT !.dcid.unused = ngtcp2_ringbuf_pop_front(@)], "OK")
     ELSE IF i = 1
     THEN Ret([c2 EXCEPT !.dcid.bound = ngtcp2_ringbuf_pop_front(@)], "OK")
     ELSE Ret([c2 EXCEPT !.dcid.bound =
                           ngtcp2_ringbuf_pop_back(
                             IF i = len THEN @ ELSE [@ EXCEPT ![i] = @[len]])],
              "OK")

\* conn_recv_retire_connection_id: the peer retires the source connection
\* ID with the sequence number of the frame.  The connection ID stays in
\* scid.set; it is queued in scid.used under the time of the call.
conn_recv_retire_connection_id(c, hd, fr) ==
  IF Len(c.oscid) = 0 THEN Ret(c, "ERR_PROTO")
  ELSE IF ~\E s \in c.scid.set : s.seq = fr.seq THEN Ret(c, "OK")
  ELSE The({
    IF scid.cid = hd.dcid THEN Ret(c, "ERR_PROTO")
    ELSE Ret([c EXCEPT !.scid.set =
                         (@ \ {scid})
                           \cup {[scid EXCEPT !.flags = @ \cup {"RETIRED"},
                                              !.ts_retired = c.log.last_ts]},
                       !.scid.used = @ \cup {scid.cid}], "OK") :
    scid \in {CHOOSE s \in c.scid.set : s.seq = fr.seq}})

\* The frame loop of conn_recv_pkt (Short and 0-RTT packets) for the
\* packet with the header hd.
RECURSIVE conn_recv_pkt_frames(_, _, _, _)
conn_recv_pkt_frames(c, hd, frames, require_ack) ==
  IF frames = << >> THEN FRet(c, "OK", require_ack)
  ELSE
  LET fr == Head(frames)
      ra == require_ack \/ fr.type \notin {NGTCP2_FRAME_ACK, NGTCP2_FRAME_PADDING,
                                          NGTCP2_FRAME_CONNECTION_CLOSE,
                                          NGTCP2_FRAME_CONNECTION_CLOSE_APP}
  IN IF fr.type = "FRAME_MALFORMED" THEN FRet(c, "ERR_FRAME_ENCODING", require_ack)
     ELSE IF hd.type = NGTCP2_PKT_0RTT /\ fr.type = NGTCP2_FRAME_ACK
     THEN FRet(c, "ERR_PROTO", require_ack)
     ELSE IF hd.type = NGTCP2_PKT_0RTT
             /\ fr.type \notin {NGTCP2_FRAME_PADDING, NGTCP2_FRAME_PING,
                                NGTCP2_FRAME_RESET_STREAM, NGTCP2_FRAME_STOP_SENDING,
                                NGTCP2_FRAME_STREAM, NGTCP2_FRAME_MAX_DATA,
                                NGTCP2_FRAME_MAX_STREAM_DATA,
                                NGTCP2_FRAME_MAX_STREAMS_BIDI,
                                NGTCP2_FRAME_MAX_STREAMS_UNI,
                                NGTCP2_FRAME_NEW_CONNECTION_ID,
                                NGTCP2_FRAME_PATH_CHALLENGE}
     THEN FRet(c, "ERR_PROTO", require_ack)
     ELSE The({
       IF r.rv # "OK" THEN FRet(r.conn, r.rv, ra)
       ELSE conn_recv_pkt_frames(r.conn, hd, Tail(frames), ra) :
       r \in {CASE fr.type = NGTCP2_FRAME_ACK -> conn_recv_ack(c, "pktns", fr)
                [] fr.type = NGTCP2_FRAME_STREAM -> conn_recv_stream(c, fr)
                [] fr.type = NGTCP2_FRAME_CRYPTO -> conn_recv_crypto(c, "pktns", fr)
                [] fr.type = NGTCP2_FRAME_RESET_STREAM -> conn_recv_reset_stream(c, fr)
                [] fr.type = NGTCP2_FRAME_STOP_SENDING -> conn_recv_stop_sending(c, fr)
                [] fr.type = NGTCP2_FRAME_MAX_STREAM_DATA ->
                     conn_recv_max_stream_data(c, fr)
                [] fr.type = NGTCP2_FRAME_MAX_DATA -> Ret(conn_recv_max_data(c, fr), "OK")
                [] fr.type \in {NGTCP2_FRAME_MAX_STREAMS_BIDI,
                                NGTCP2_FRAME_MAX_STREAMS_UNI}
                     -> conn_recv_max_streams(c, fr)
                [] fr.type \in {NGTCP2_FRAME_CONNECTION_CLOSE,
                                NGTCP2_FRAME_CONNECTION_CLOSE_APP}
                     -> Ret(conn_recv_connection_close(c), "OK")
                [] fr.type = NGTCP2_FRAME_PATH_CHALLENGE
                     -> Ret(conn_recv_path_challenge(c, hd.path, fr), "OK")
                [] fr.type = NGTCP2_FRAME_PATH_RESPONSE
                     -> conn_recv_path_response(c, hd.path, fr)
                [] fr.type = NGTCP2_FRAME_NEW_CONNECTION_ID
                     -> conn_recv_new_connection_id(c, fr)
                [] fr.type = NGTCP2_FRAME_RETIRE_CONNECTION_ID
                     -> conn_recv_retire_connection_id(c, hd, fr)
                [] OTHER -> Ret(c, "OK")}})

\* non_probing_pkt of conn_recv_pkt: the packet holds a frame other than
\* PADDING, CONNECTION_CLOSE, PATH_CHALLENGE, PATH_RESPONSE and
\* NEW_CONNECTION_ID.
non_probing_pkt(frames) ==
  \E i \in DOMAIN frames :
    frames[i].type \notin {NGTCP2_FRAME_PADDING, NGTCP2_FRAME_CONNECTION_CLOSE,
                           NGTCP2_FRAME_CONNECTION_CLOSE_APP,
                           NGTCP2_FRAME_PATH_CHALLENGE, NGTCP2_FRAME_PATH_RESPONSE,
                           NGTCP2_FRAME_NEW_CONNECTION_ID}

\* The migration step of conn_recv_pkt: the server follows the peer when
\* the newest packet, a non-probing one, comes from a path that is neither
\* the current one nor under validation.  A failure for want of a
\* connection ID is passed over.
conn_recv_pkt_migrate(c, p, pkt_num) ==
  IF /\ c.server
     /\ p.type = NGTCP2_PKT_SHORT
     /\ non_probing_pkt(p.frames)
     /\ c.pktns.rx.max_pkt_num < pkt_num
     /\ c.dcid.current.path # p.path
     /\ ~conn_path_validation_in_progress(c, p.path)
  THEN The({IF ngtcp2_err_is_fatal(r.rv) THEN r ELSE Ret(r.conn, "OK") :
              r \in {conn_recv_non_probing_pkt_on_new_path(c, p.path)}})
  ELSE Ret(c, "OK")

\* The frame loop of conn_recv_delayed_handshake_pkt.
RECURSIVE conn_recv_delayed_handshake_frames(_, _, _, _)
conn_recv_delayed_handshake_frames(c, type, frames, require_ack) ==
  IF frames = << >> THEN FRet(c, "OK", require_ack)
  ELSE
  LET fr == Head(frames)
  IN IF fr.type = "FRAME_MALFORMED" THEN FRet(c, "ERR_FRAME_ENCODING", require_ack)
     ELSE The({
       IF r.rv # "OK" THEN FRet(r.conn, r.rv, require_ack)
       ELSE conn_recv_delayed_handshake_frames(r.conn, type, Tail(frames),
              require_ack \/ fr.type = NGTCP2_FRAME_CRYPTO) :
       r \in {CASE fr.type = NGTCP2_FRAME_ACK -> conn_recv_ack(c, "hs_pktns", fr)
                [] fr.type \in {NGTCP2_FRAME_CONNECTION_CLOSE,
                                NGTCP2_FRAME_CONNECTION_CLOSE_APP}
                     -> IF type # NGTCP2_PKT_HANDSHAKE THEN Ret(c, "OK")
                        ELSE Ret(conn_recv_connection_close(c), "OK")
                [] fr.type \in {NGTCP2_FRAME_PADDING, NGTCP2_FRAME_CRYPTO} -> Ret(c, "OK")
                [] OTHER -> Ret(c, "ERR_PROTO")}})

conn_recv_delayed_handshake_pkt(c, p, pkt_num) ==
  IF p.frames = << >> THEN Ret(c, "ERR_DISCARD_PKT")
  ELSE The({
    IF f.rv # "OK" THEN Ret(f.conn, f.rv)
    ELSE Ret(conn_recv_pkt_commit(f.conn, "hs_pktns", pkt_num, f.require_ack), "OK") :
    f \in {conn_recv_delayed_handshake_frames(c, p.type, p.frames, FALSE)}})

\* The packet number conn_recv_pkt reads from the header of packet p.
hd_pkt_num(c, ns, p) ==
  ngtcp2_pkt_adjust_pkt_num(c[ns].rx.max_pkt_num,
                            p.pkt_num % (2 ^ pkt_num_bits(p.pkt_numlen)),
                            pkt_num_bits(p.pkt_numlen))

\* Payload decryption succeeds for a packet the peer protected with the key
\* of the phase its header names when the key the library tries is that
\* key and the nonce, built from the adjusted packet number, is the one the
\* peer used.
\* A decryption that accepts every payload.
conn_decrypt_pkt_any(p, pkt_num) == TRUE

conn_decrypt_pkt(p, pkt_num) == p.auth /\ pkt_num = p.pkt_num

conn_key_phase_changed(c, p) == c.pktns.crypto.rx.key_phase # p.key_phase

\* The update_key callback stages the next keys with
\* ngtcp2_conn_update_tx_key and ngtcp2_conn_update_rx_key.
conn_prepare_key_update(c) ==
  IF c.crypto.key_update.new_rx_ckm \/ c.crypto.key_update.new_tx_ckm THEN c
  ELSE conn_call([c EXCEPT !.crypto.key_update.new_rx_ckm = TRUE,
                           !.crypto.key_update.new_tx_ckm = TRUE],
                 [cb |-> "update_key"])

conn_commit_key_update(c, pkt_num) ==
  [c EXCEPT !.crypto.key_update = [old_rx_ckm |-> TRUE, new_rx_ckm |-> FALSE,
                                   new_tx_ckm |-> FALSE],
            !.pktns.crypto.rx.key_phase = ~@,
            !.pktns.crypto.rx.pkt_num = pkt_num]

\* conn_verify_dcid: the packet's destination connection ID must be one of
\* the local source connection IDs; the first packet that carries one marks
\* it used.
conn_verify_dcid(c, dcid) ==
  IF ~\E s \in c.scid.set : s.cid = dcid THEN Ret(c, "ERR_INVALID_ARGUMENT")
  ELSE The({
    IF "USED" \in scid.flags THEN Ret(c, "OK")
    ELSE Ret([c EXCEPT !.scid.set = (@ \ {scid})
                                      \cup {[scid EXCEPT !.flags = @ \cup {"USED"}]},
                       !.scid.used = @ \cup {dcid}], "OK") :
    scid \in {CHOOSE s \in c.scid.set : s.cid = dcid}})

\* The choice of the key that takes the staged new key for every packet
\* with an unexpected key phase.
conn_recv_pkt_ckm_eager(c, p, pkt_num) ==
  IF p.type # NGTCP2_PKT_SHORT \/ ~conn_key_phase_changed(c, p) THEN "rx"
  ELSE "new_rx"

\* The key a Short packet is decrypted with: the current one, or with an
\* unexpected key phase the old or the staged new one; "none" forces the
\* decryption to fail.
conn_recv_pkt_ckm(c, p, pkt_num) ==
  IF p.type # NGTCP2_PKT_SHORT \/ ~conn_key_phase_changed(c, p) THEN "rx"
  ELSE IF c.pktns.crypto.rx.pkt_num > pkt_num
  THEN IF c.crypto.key_update.old_rx_ckm THEN "old_rx" ELSE "none"
  ELSE IF c.pktns.rx.max_pkt_num < pkt_num THEN "new_rx"
  ELSE "none"

\* The key bookkeeping of a processed Short packet.
conn_recv_pkt_key(c, p, pkt_num, ckm) ==
  IF p.type # NGTCP2_PKT_SHORT THEN c
  ELSE IF ckm = "new_rx" THEN conn_commit_key_update(c, pkt_num)
  ELSE IF ckm = "rx" /\ c.pktns.crypto.rx.pkt_num > pkt_num
  THEN [c EXCEPT !.pktns.crypto.rx.pkt_num = pkt_num]
  ELSE c

\* conn_recv_pkt processes one Short, 0-RTT or delayed long-header packet;
\* "PKTLEN" stands for the positive number of bytes consumed.
conn_recv_pkt(c, p) ==
  LET ns == pktns_of(p.type)
  IN IF p.type = NGTCP2_PKT_VERSION_NEGOTIATION THEN Ret(c, "ERR_DISCARD_PKT")
     ELSE IF p.type \in {NGTCP2_PKT_INITIAL, NGTCP2_PKT_RETRY} THEN Ret(c, "PKTLEN")
     ELSE IF p.type = NGTCP2_PKT_0RTT /\ (~c.server \/ ~c.early.ckm)
     THEN Ret(c, "ERR_DISCARD_PKT")
     ELSE The({
       IF pktns_pkt_num_is_duplicate(c, ns, pkt_num) THEN Ret(c, "ERR_DISCARD_PKT")
       ELSE The({
         The({
           IF ckm = "none" \/ ~conn_decrypt_pkt(p, pkt_num) THEN Ret(ck, "ERR_DISCARD_PKT")
           ELSE IF ngtcp2_pkt_verify_reserved_bits(p.rsv_ok) # "OK"
           THEN Ret(ck, "ERR_PROTO")
           ELSE IF p.frames = << >> THEN Ret(ck, "ERR_DISCARD_PKT")
           ELSE The({
           IF v.rv # "OK" THEN Ret(v.conn, "ERR_DISCARD_PKT")
           ELSE IF p.type = NGTCP2_PKT_HANDSHAKE
           THEN The({IF d.rv # "OK" THEN d ELSE Ret(d.conn, "PKTLEN") :
                       d \in {conn_recv_delayed_handshake_pkt(v.conn, p, pkt_num)}})
           ELSE The({
             IF f.rv # "OK" THEN Ret(f.conn, f.rv)
             ELSE The({
               IF m.rv # "OK" THEN m
               ELSE The({
                 Ret(conn_recv_pkt_commit(fk, ns, pkt_num, f.require_ack), "PKTLEN") :
                 fk \in {conn_recv_pkt_key(m.conn, p, pkt_num, ckm)}}) :
               m \in {conn_recv_pkt_migrate(f.conn, p, pkt_num)}}) :
             f \in {conn_recv_pkt_frames(
                      IF p.type = NGTCP2_PKT_SHORT
                      THEN [v.conn EXCEPT !.flags = @ \cup {"RECV_PROTECTED_PKT"}]
                      ELSE v.conn,
                      p, p.frames, FALSE)}}) :
           \* a 0-RTT packet carries the DCID of the client's first Initial
           v \in {IF p.type = NGTCP2_PKT_0RTT THEN Ret(ck, "OK")
                  ELSE conn_verify_dcid(ck, p.dcid)}}) :
           ck \in {IF ckm = "new_rx" THEN conn_prepare_key_update(c) ELSE c}}) :
         ckm \in {conn_recv_pkt_ckm(c, p, pkt_num)}}) :
       pkt_num \in {hd_pkt_num(c, ns, p)}})

conn_on_stateless_reset(c, p) ==
  IF ~p.sr THEN Ret(c, "ERR_INVALID_ARGUMENT")
  ELSE Ret(conn_call([c EXCEPT !.state = NGTCP2_CS_DRAINING],
                     [cb |-> "recv_stateless_reset"]), "OK")

\* A datagram of the model holds one packet.
conn_recv_cpkt(c, p) ==
  The({
    IF r.rv = "PKTLEN" THEN Ret(r.conn, "OK")
    ELSE IF ngtcp2_err_is_fatal(r.rv) THEN r
    ELSE The({
      IF s.rv = "OK" THEN s
      ELSE IF r.rv = "ERR_DISCARD_PKT" THEN Ret(r.conn, "OK")
      ELSE r :
      s \in {conn_on_stateless_reset(r.conn, p)}}) :
    r \in {conn_recv_pkt(c, p)}})

conn_is_retired_path(c, path) ==
  \E i \in DOMAIN c.dcid.retired : c.dcid.retired[i].path = path

\* The client passes over a packet from a path it does not know.
ngtcp2_conn_read_pkt(c, p) ==
  IF /\ ~c.server
     /\ c.dcid.current.path # p.path
     /\ (c.pv = << >> \/ c.pv[1].dcid.path # p.path)
     /\ ~conn_is_retired_path(c, p.path)
  THEN Ret(c, "OK")
  ELSE
  CASE c.state = NGTCP2_CS_CLOSING -> Ret(c, "ERR_CLOSING")
    [] c.state = NGTCP2_CS_DRAINING -> Ret(c, "ERR_DRAINING")
    [] c.state = NGTCP2_CS_POST_HANDSHAKE ->
         The({
           IF r.rv # "OK" THEN r
           ELSE IF r.conn.state = NGTCP2_CS_DRAINING THEN Ret(r.conn, "ERR_DRAINING")
           ELSE r :
           r \in {conn_recv_cpkt(c, p)}})
    [] OTHER -> Ret(c, "ERR_INVALID_STATE")

(***************************************************************************)
(* The handshake.                                                          *)
(***************************************************************************)
conn_discard_initial_key(c) ==
  IF "INITIAL_KEY_DISCARDED" \in c.flags THEN c
  ELSE [c EXCEPT !.flags = @ \cup {"INITIAL_KEY_DISCARDED"},
                 !.in_pktns.crypto.tx.ckm = FALSE,
                 !.in_pktns.crypto.rx.ckm = FALSE,
                 !.in_pktns.rtb.ents = {},
                 !.in_pktns.acktr = ngtcp2_acktr_commit_ack(@)]

conn_handshake_completed(c) ==
  The({
    The({
      IF c2.local.uni.max_streams > 0
      THEN conn_call(c2, [cb |-> "extend_max_local_streams", which |-> "uni",
                          max_streams |-> c2.local.uni.max_streams])
      ELSE c2 :
      c2 \in {IF c1.local.bidi.max_streams > 0
              THEN conn_call(c1, [cb |-> "extend_max_local_streams", which |-> "bidi",
                                  max_streams |-> c1.local.bidi.max_streams])
              ELSE c1}}) :
    c1 \in {conn_call([c EXCEPT !.flags = @ \cup {"HANDSHAKE_COMPLETED_HANDLED"}],
                      [cb |-> "handshake_completed"])}})

\* The application's recv_client_initial and client_initial callbacks derive
\* and install the Initial keys; client_initial also submits the first
\* CRYPTO data.
conn_call_recv_client_initial(c) ==
  conn_call([c EXCEPT !.in_pktns.crypto.tx.ckm = TRUE,
                      !.in_pktns.crypto.rx.ckm = TRUE],
            [cb |-> "recv_client_initial"])

conn_call_client_initial(c) ==
  conn_call([c EXCEPT !.in_pktns.crypto.tx.ckm = TRUE,
                      !.in_pktns.crypto.rx.ckm = TRUE,
                      !.in_pktns.crypto.tx.frq = 1],
            [cb |-> "client_initial"])

\* The frame loop of conn_recv_handshake_pkt.
RECURSIVE conn_recv_handshake_frames(_, _, _, _)
conn_recv_handshake_frames(c, ns, frames, require_ack) ==
  IF frames = << >> THEN FRet(c, "OK", require_ack)
  ELSE
  LET fr == Head(frames)
  IN IF fr.type = "FRAME_MALFORMED" THEN FRet(c, "ERR_FRAME_ENCODING", require_ack)
     ELSE The({
       IF r.rv # "OK" THEN FRet(r.conn, r.rv, require_ack)
       ELSE conn_recv_handshake_frames(r.conn, ns, Tail(frames),
              require_ack \/ fr.type = NGTCP2_FRAME_CRYPTO) :
       r \in {CASE fr.type = NGTCP2_FRAME_ACK -> conn_recv_ack(c, ns, fr)
                [] fr.type = NGTCP2_FRAME_PADDING -> Ret(c, "OK")
                [] fr.type = NGTCP2_FRAME_CRYPTO -> conn_recv_crypto(c, ns, fr)
                [] fr.type = NGTCP2_FRAME_CONNECTION_CLOSE ->
                     Ret(conn_recv_connection_close(c), "OK")
                [] fr.type = NGTCP2_FRAME_CONNECTION_CLOSE_APP ->
                     \* the code compares the frame type with a packet type
                     IF fr.type # NGTCP2_PKT_HANDSHAKE THEN Ret(c, "ERR_PROTO")
                     ELSE Ret(conn_recv_connection_close(c), "OK")
                [] OTHER -> Ret(c, "ERR_PROTO")}})

\* conn_recv_handshake_pkt processes one packet that arrives during the
\* handshake.  Packets the code would buffer for later are dropped here.
\* ngtcp2_rtb_remove_all empties the buffer and hands out the frames of its
\* entries, here in the order of the packet numbers.
RECURSIVE rtb_frames(_)
rtb_frames(ents) ==
  IF ents = {} THEN << >>
  ELSE LET e == CHOOSE e \in ents : \A g \in ents : e.pkt_num <= g.pkt_num
       IN e.frc \o rtb_frames(ents \ {e})

ngtcp2_rtb_remove_all(rtb) ==
  [rtb |-> [rtb EXCEPT !.ents = {}], frc |-> rtb_frames(rtb.ents)]

\* A conn_resched_frames that loses the frames it is given.
conn_resched_frames_drop(c, ns, frc, rest) == c

\* conn_resched_frames schedules the frames frc for retransmission: a STREAM
\* frame goes to the frame queue of its stream, which enters tx.strmq (and is
\* dropped if the stream is gone), a CRYPTO frame goes to the crypto queue
\* of the space ns, and the other frames (rest) are put in front of the
\* frame queue of the space.
RECURSIVE conn_resched_frames(_, _, _, _)
conn_resched_frames(c, ns, frc, rest) ==
  IF frc = << >> THEN [c EXCEPT ![ns].tx.frq = rest \o @]
  ELSE LET fr == Head(frc)
           sid == fr.stream_id
           queued == \E i \in DOMAIN c.tx.strmq : c.tx.strmq[i] = sid
       IN CASE fr.type = NGTCP2_FRAME_STREAM ->
                 conn_resched_frames(
                   IF sid \notin DOMAIN c.strms THEN c
                   ELSE [c EXCEPT !.strms[sid] = ngtcp2_strm_streamfrq_push(@, fr),
                                  !.tx.strmq = IF queued THEN @ ELSE Append(@, sid)],
                   ns, Tail(frc), rest)
            [] fr.type = NGTCP2_FRAME_CRYPTO ->
                 conn_resched_frames([c EXCEPT ![ns].crypto.tx.frq = @ + 1],
                                     ns, Tail(frc), rest)
            [] OTHER -> conn_resched_frames(c, ns, Tail(frc), Append(rest, fr))

\* The handshake packets in flight are taken out of the retransmission
\* buffer, and their frames are handed back to be sent again.
ngtcp2_rtb_on_crypto_timeout(rtb) ==
  [rtb |-> [rtb EXCEPT !.ents = {e \in @ : "CRYPTO_PKT" \notin e.flags}],
   frc |-> rtb_frames({e \in rtb.ents : "CRYPTO_PKT" \in e.flags})]

conn_on_crypto_timeout(c, ns) ==
  The({conn_resched_frames([c EXCEPT ![ns].rtb = r.rtb], ns, r.frc, << >>) :
         r \in {ngtcp2_rtb_on_crypto_timeout(c[ns].rtb)}})

\* ngtcp2_conn_on_loss_detection_timer: the application calls it when the
\* loss detection timer expires.  No packet has a loss time, so the timer
\* stands for a handshake retransmission or for a probe timeout.
\* The expiry that schedules a single probe packet.
ngtcp2_conn_on_loss_detection_timer_one(c) ==
  IF ~c.rcs.loss_detection_timer THEN Ret(c, "OK")
  ELSE Ret(ngtcp2_conn_set_loss_detection_timer(
    IF \/ ngtcp2_rtb_num_ack_eliciting(c.in_pktns.rtb) > 0
       \/ ngtcp2_rtb_num_ack_eliciting(c.hs_pktns.rtb) > 0
    THEN The({[c2 EXCEPT !.flags = IF ~c.server /\ ~c.hs_pktns.crypto.tx.ckm
                                   THEN @ \cup {"FORCE_SEND_HANDSHAKE"} ELSE @,
                         !.rcs.crypto_count = @ + 1] :
                c2 \in {conn_on_crypto_timeout(conn_on_crypto_timeout(c, "in_pktns"),
                                               "hs_pktns")}})
    ELSE IF ~c.server /\ ~c.pktns.crypto.tx.ckm
    THEN [c EXCEPT !.flags = @ \cup {"FORCE_SEND_HANDSHAKE"},
                   !.rcs.crypto_count = @ + 1]
    ELSE [c EXCEPT !.rcs.probe_pkt_left = 1, !.rcs.pto_count = @ + 1]), "OK")

ngtcp2_conn_on_loss_detection_timer(c) ==
  IF ~c.rcs.loss_detection_timer THEN Ret(c, "OK")
  ELSE Ret(ngtcp2_conn_set_loss_detection_timer(
    IF \/ ngtcp2_rtb_num_ack_eliciting(c.in_pktns.rtb) > 0
       \/ ngtcp2_rtb_num_ack_eliciting(c.hs_pktns.rtb) > 0
    THEN The({[c2 EXCEPT !.flags = IF ~c.server /\ ~c.hs_pktns.crypto.tx.ckm
                                   THEN @ \cup {"FORCE_SEND_HANDSHAKE"} ELSE @,
                         !.rcs.crypto_count = @ + 1] :
                c2 \in {conn_on_crypto_timeout(conn_on_crypto_timeout(c, "in_pktns"),
                                               "hs_pktns")}})
    ELSE IF ~c.server /\ ~c.pktns.crypto.tx.ckm
    THEN [c EXCEPT !.flags = @ \cup {"FORCE_SEND_HANDSHAKE"},
                   !.rcs.crypto_count = @ + 1]
    ELSE [c EXCEPT !.rcs.probe_pkt_left = 2, !.rcs.pto_count = @ + 1]), "OK")

\* conn_on_retry handles the Retry packet p: p.malformed says that its
\* payload cannot be decoded, p.odcid_ok that its ODCID is the DCID the
\* client has used, p.tokenlen is the length of its token and p.cb what the
\* recv_retry callback returns.
\* A conn_on_retry that acts upon every Retry packet.
conn_on_retry_again(c, p) ==
  IF p.malformed THEN Ret(c, "ERR_INVALID_ARGUMENT")
  ELSE IF ~p.odcid_ok \/ p.tokenlen = 0 THEN Ret(c, "ERR_PROTO")
  ELSE The({
    IF p.cb # "OK" THEN Ret(c1, "ERR_CALLBACK_FAILURE")
    ELSE The({
      The({
        The({
          The({Ret([c5 EXCEPT !.token.len = p.tokenlen], "OK") :
                 c5 \in {conn_resched_frames([c3 EXCEPT !.in_pktns.rtb = r2.rtb],
                                            "in_pktns", r2.frc, << >>)}}) :
          r2 \in {ngtcp2_rtb_remove_all(c3.in_pktns.rtb)}}) :
        c3 \in {conn_resched_frames([c1 EXCEPT !.state = NGTCP2_CS_CLIENT_INITIAL,
                                               !.pktns.rtb = r1.rtb],
                                    "pktns", r1.frc, << >>)}}) :
      r1 \in {ngtcp2_rtb_remove_all(c1.pktns.rtb)}}) :
    c1 \in {conn_call([c EXCEPT !.dcid.current.cid = p.scid,
                                 !.flags = @ \cup {"RECV_RETRY"}],
                      [cb |-> "recv_retry"])}})

conn_on_retry(c, p) ==
  IF "RECV_RETRY" \in c.flags THEN Ret(c, "OK")
  ELSE IF p.malformed THEN Ret(c, "ERR_INVALID_ARGUMENT")
  ELSE IF ~p.odcid_ok \/ p.tokenlen = 0 THEN Ret(c, "ERR_PROTO")
  ELSE The({
    IF p.cb # "OK" THEN Ret(c1, "ERR_CALLBACK_FAILURE")
    ELSE The({
      The({
        The({
          The({Ret([c5 EXCEPT !.token.len = p.tokenlen], "OK") :
                 c5 \in {conn_resched_frames([c3 EXCEPT !.in_pktns.rtb = r2.rtb],
                                            "in_pktns", r2.frc, << >>)}}) :
          r2 \in {ngtcp2_rtb_remove_all(c3.in_pktns.rtb)}}) :
        c3 \in {conn_resched_frames([c1 EXCEPT !.state = NGTCP2_CS_CLIENT_INITIAL,
                                               !.pktns.rtb = r1.rtb],
                                    "pktns", r1.frc, << >>)}}) :
      r1 \in {ngtcp2_rtb_remove_all(c1.pktns.rtb)}}) :
    c1 \in {conn_call([c EXCEPT !.dcid.current.cid = p.scid,
                                 !.flags = @ \cup {"RECV_RETRY"}],
                      [cb |-> "recv_retry"])}})

\* conn_on_version_negotiation handles the Version Negotiation packet p:
\* p.malformed says that its payload is no list of versions and p.cb is what
\* the recv_version_negotiation callback returns.
conn_on_version_negotiation(c, p) ==
  IF p.malformed THEN Ret(c, "ERR_INVALID_ARGUMENT")
  ELSE The({
    Ret(c1, IF p.cb # "OK" THEN "ERR_CALLBACK_FAILURE" ELSE "OK") :
    c1 \in {conn_call([c EXCEPT !.state = NGTCP2_CS_DRAINING],
                      [cb |-> "recv_version_negotiation"])}})

\* The Version Negotiation and Retry cases of conn_recv_handshake_pkt;
\* p.dcid_ok and p.scid_ok say that the connection ids of a Version
\* Negotiation packet are those of the client's first packet.
\* A Version Negotiation case without the checks of the role, of the
\* progress of the handshake and of the connection ids.
conn_recv_handshake_vn_any(c, p) ==
  The({
    IF r.rv = "OK" THEN Ret(r.conn, "ERR_RECV_VERSION_NEGOTIATION")
    ELSE IF ngtcp2_err_is_fatal(r.rv) THEN r
    ELSE Ret(r.conn, "ERR_DISCARD_PKT") :
    r \in {conn_on_version_negotiation(c, p)}})

conn_recv_handshake_vn(c, p) ==
  IF c.server \/ "CONN_ID_NEGOTIATED" \in c.flags THEN Ret(c, "ERR_DISCARD_PKT")
  ELSE IF ~p.dcid_ok \/ ~p.scid_ok THEN Ret(c, "ERR_DISCARD_PKT")
  ELSE The({
    IF r.rv = "OK" THEN Ret(r.conn, "ERR_RECV_VERSION_NEGOTIATION")
    ELSE IF ngtcp2_err_is_fatal(r.rv) THEN r
    ELSE Ret(r.conn, "ERR_DISCARD_PKT") :
    r \in {conn_on_version_negotiation(c, p)}})

conn_recv_handshake_retry(c, p) ==
  IF c.server \/ "CONN_ID_NEGOTIATED" \in c.flags THEN Ret(c, "ERR_DISCARD_PKT")
  ELSE The({
    IF r.rv = "OK" THEN Ret(r.conn, "PKTLEN")
    ELSE IF ngtcp2_err_is_fatal(r.rv) THEN r
    ELSE Ret(r.conn, "ERR_DISCARD_PKT") :
    r \in {conn_on_retry(c, p)}})

\* conn_buffer_pkt without the test of the length of the chain.
conn_buffer_pkt_unbounded(c, ns, p) ==
  [c EXCEPT ![ns].rx.buffed_pkts = Append(@, p)]

\* conn_buffer_pkt keeps the packet p for later in the chain of the space
\* ns, unless the chain has NGTCP2_MAX_NUM_BUFFED_RX_PKTS packets.
conn_buffer_pkt(c, ns, p) ==
  IF Len(c[ns].rx.buffed_pkts) >= NGTCP2_MAX_NUM_BUFFED_RX_PKTS THEN c
  ELSE [c EXCEPT ![ns].rx.buffed_pkts = Append(@, p)]

\* A packet that comes before its keys is buffered: a Short packet in the
\* chain of hs_pktns, a 0-RTT or a Handshake packet in that of in_pktns.
conn_recv_handshake_pkt(c, p) ==
  LET ns == pktns_of(p.type)
  IN IF p.type = NGTCP2_PKT_SHORT
     THEN IF c.state = NGTCP2_CS_SERVER_INITIAL THEN Ret(c, "PKTLEN")
          ELSE Ret(conn_buffer_pkt(c, "hs_pktns", p), "PKTLEN")
     ELSE IF p.type = NGTCP2_PKT_VERSION_NEGOTIATION THEN conn_recv_handshake_vn(c, p)
     ELSE IF p.type = NGTCP2_PKT_RETRY THEN conn_recv_handshake_retry(c, p)
     ELSE IF p.type = NGTCP2_PKT_0RTT
     THEN IF ~c.server THEN Ret(c, "ERR_DISCARD_PKT")
          ELSE IF "CONN_ID_NEGOTIATED" \notin c.flags
          THEN Ret(conn_buffer_pkt(c, "in_pktns", p), "PKTLEN")
          ELSE IF ~c.early.ckm THEN Ret(c, "PKTLEN")
          ELSE The({IF e.rv # "PKTLEN" THEN e ELSE Ret(e.conn, "PKTLEN") :
                      e \in {conn_recv_pkt(c, p)}})
     ELSE IF p.type = NGTCP2_PKT_INITIAL /\ "INITIAL_KEY_DISCARDED" \in c.flags
     THEN Ret(c, "PKTLEN")
     ELSE IF p.type = NGTCP2_PKT_HANDSHAKE /\ ~c.hs_pktns.crypto.rx.ckm
     THEN IF c.server THEN Ret(c, "PKTLEN")
          ELSE Ret(conn_buffer_pkt(c, "in_pktns", p), "PKTLEN")
     ELSE The({
       The({
         IF pktns_pkt_num_is_duplicate(c1, ns, pkt_num) THEN Ret(c1, "ERR_DISCARD_PKT")
         ELSE IF ~conn_decrypt_pkt(p, pkt_num) THEN Ret(c1, "ERR_DISCARD_PKT")
         ELSE IF ngtcp2_pkt_verify_reserved_bits(p.rsv_ok) # "OK"
         THEN Ret(c1, "ERR_PROTO")
         ELSE The({
         IF v.rv # "OK" THEN Ret(v.conn, "ERR_DISCARD_PKT")
         ELSE IF p.frames = << >> THEN Ret(v.conn, "ERR_DISCARD_PKT")
         ELSE The({
           IF f.rv # "OK" THEN Ret(f.conn, f.rv)
           ELSE IF c.server /\ p.type = NGTCP2_PKT_INITIAL
                   /\ f.conn.in_pktns.crypto.strm.rx_offset = 0
           THEN Ret(f.conn, "ERR_PROTO")
           ELSE The({
             Ret(c4, IF c4.state = NGTCP2_CS_DRAINING THEN "ERR_DRAINING"
                     ELSE "PKTLEN") :
             c4 \in {conn_recv_pkt_commit(
                       IF c.server /\ p.type = NGTCP2_PKT_HANDSHAKE
                       THEN [f.conn EXCEPT !.flags = @ \cup {"SADDR_VERIFIED"}]
                       ELSE f.conn, ns, pkt_num, f.require_ack)}}) :
           f \in {conn_recv_handshake_frames(
                    IF p.type = NGTCP2_PKT_INITIAL
                    THEN [v.conn EXCEPT !.flags = @ \cup {"CONN_ID_NEGOTIATED"}]
                    ELSE v.conn,
                    ns, p.frames, FALSE)}}) :
         \* the client's Initial packets carry the DCID the client chose
         v \in {IF p.type = NGTCP2_PKT_INITIAL /\ c.server THEN Ret(c1, "OK")
                ELSE conn_verify_dcid(c1, p.dcid)}}) :
         pkt_num \in {hd_pkt_num(c1, ns, p)}}) :
       c1 \in {IF p.type = NGTCP2_PKT_INITIAL /\ c.server
                  /\ "CONN_ID_NEGOTIATED" \notin c.flags
               THEN conn_call_recv_client_initial(c) ELSE c}})

\* The reading of a datagram that passes on every error of an Initial
\* packet.
conn_recv_handshake_cpkt_strict(c, p) ==
  The({
    IF r.rv = "PKTLEN" THEN Ret([r.conn EXCEPT !.hs_recved = @ + p.pktlen], "OK")
    ELSE IF ngtcp2_err_is_fatal(r.rv) THEN r
    ELSE IF r.rv = "ERR_DISCARD_PKT" THEN Ret(r.conn, "OK")
    ELSE r :
    r \in {conn_recv_handshake_pkt(c, p)}})

conn_recv_handshake_cpkt(c, p) ==
  The({
    IF r.rv = "PKTLEN" THEN Ret([r.conn EXCEPT !.hs_recved = @ + p.pktlen], "OK")
    ELSE IF ngtcp2_err_is_fatal(r.rv) THEN r
    ELSE IF r.rv = "ERR_DISCARD_PKT" THEN Ret(r.conn, "OK")
    ELSE IF r.rv # "ERR_CRYPTO" /\ p.type = NGTCP2_PKT_INITIAL THEN Ret(r.conn, "OK")
    ELSE r :
    r \in {conn_recv_handshake_pkt(c, p)}})

\* conn_process_buffered_protected_pkt processes the 0-RTT and Short
\* packets in the chain of the space ns.  It stops at a stateless reset and
\* at an error other than a discarded packet; what it has not come to
\* stays in the chain.
RECURSIVE conn_process_buffered_protected_pkt(_, _)
conn_process_buffered_protected_pkt(c, ns) ==
  IF c[ns].rx.buffed_pkts = << >> THEN Ret(c, "OK")
  ELSE The({
    The({
      IF r.rv # "PKTLEN" /\ ~ngtcp2_err_is_fatal(r.rv) /\ s.rv = "OK"
      THEN Ret([s.conn EXCEPT ![ns].rx.buffed_pkts = Tail(@)], "OK")
      ELSE IF r.rv \in {"PKTLEN", "ERR_DISCARD_PKT"}
      THEN conn_process_buffered_protected_pkt(
             [r.conn EXCEPT ![ns].rx.buffed_pkts = Tail(@)], ns)
      ELSE Ret([r.conn EXCEPT ![ns].rx.buffed_pkts = Tail(@)], r.rv) :
      s \in {IF r.rv # "PKTLEN" /\ ~ngtcp2_err_is_fatal(r.rv)
             THEN conn_on_stateless_reset(r.conn, Head(c[ns].rx.buffed_pkts))
             ELSE Ret(r.conn, "ERR_INVALID_ARGUMENT")}}) :
    r \in {conn_recv_pkt(c, Head(c[ns].rx.buffed_pkts))}})

\* conn_process_buffered_handshake_pkt processes the packets in the chain
\* of in_pktns.
RECURSIVE conn_process_buffered_handshake_pkt(_)
conn_process_buffered_handshake_pkt(c) ==
  IF c.in_pktns.rx.buffed_pkts = << >> THEN Ret(c, "OK")
  ELSE The({
    IF r.rv \in {"PKTLEN", "ERR_DISCARD_PKT"}
    THEN conn_process_buffered_handshake_pkt(
           [r.conn EXCEPT !.in_pktns.rx.buffed_pkts = Tail(@)])
    ELSE Ret([r.conn EXCEPT !.in_pktns.rx.buffed_pkts = Tail(@)], r.rv) :
    r \in {conn_recv_handshake_pkt(c, Head(c.in_pktns.rx.buffed_pkts))}})

\* A read_handshake of a server that enters NGTCP2_CS_POST_HANDSHAKE on
\* the completion of TLS alone.
ngtcp2_conn_read_handshake_unchecked(c, p) ==
  The({
    IF r.rv # "OK" \/ c.state # NGTCP2_CS_SERVER_WAIT_HANDSHAKE
       \/ "HANDSHAKE_COMPLETED" \notin r.conn.flags
    THEN r
    ELSE Ret([conn_handshake_completed(r.conn)
                EXCEPT !.state = NGTCP2_CS_POST_HANDSHAKE], "OK") :
    r \in {conn_recv_handshake_cpkt(c, p)}})

\* A read_handshake of a server that leaves NGTCP2_CS_SERVER_INITIAL as
\* soon as it has read a packet.
ngtcp2_conn_read_handshake_eager(c, p) ==
  The({
    IF r.rv = "OK" /\ c.state = NGTCP2_CS_SERVER_INITIAL
    THEN Ret([r.conn EXCEPT !.state = NGTCP2_CS_SERVER_WAIT_HANDSHAKE], "OK")
    ELSE r :
    r \in {conn_recv_handshake_cpkt(c, p)}})

\* The packets buffered in the chain of in_pktns are processed once the
\* key to read Handshake packets is there.
conn_read_handshake_buffered(r) ==
  IF r.rv # "OK" \/ ~r.conn.hs_pktns.crypto.rx.ckm THEN r
  ELSE conn_process_buffered_handshake_pkt(r.conn)

ngtcp2_conn_read_handshake(c, p) ==
  CASE c.state = NGTCP2_CS_CLIENT_INITIAL -> Ret(c, "OK")
    [] c.state = NGTCP2_CS_CLIENT_WAIT_HANDSHAKE ->
         The({
           IF r.rv # "OK" \/ r.conn.state = NGTCP2_CS_CLIENT_INITIAL THEN r
           ELSE conn_read_handshake_buffered(r) :
           r \in {conn_recv_handshake_cpkt(c, p)}})
    [] c.state = NGTCP2_CS_SERVER_INITIAL ->
         The({
           IF r.rv # "OK" \/ r.conn.in_pktns.crypto.strm.rx_offset = 0 THEN r
           ELSE IF r.conn.early.ckm
           THEN conn_process_buffered_protected_pkt(r.conn, "in_pktns")
           ELSE Ret([r.conn EXCEPT !.in_pktns.rx.buffed_pkts = << >>], "OK") :
           r \in {conn_recv_handshake_cpkt(c, p)}})
    [] c.state = NGTCP2_CS_SERVER_WAIT_HANDSHAKE ->
         The({
           IF r.rv # "OK" THEN r
           ELSE The({
             IF "HANDSHAKE_COMPLETED" \notin c1.flags THEN Ret(c1, "OK")
             ELSE IF "TRANSPORT_PARAM_RECVED" \notin c1.flags
             THEN Ret(c1, "ERR_REQUIRED_TRANSPORT_PARAM")
             ELSE conn_process_buffered_protected_pkt(
                    [conn_handshake_completed(c1)
                       EXCEPT !.state = NGTCP2_CS_POST_HANDSHAKE], "hs_pktns") :
             c1 \in {IF r.conn.hs_pktns.rx.max_pkt_num # -1
                     THEN conn_discard_initial_key(r.conn) ELSE r.conn}}) :
           r \in {conn_read_handshake_buffered(conn_recv_handshake_cpkt(c, p))}})
    [] c.state = NGTCP2_CS_CLOSING -> Ret(c, "ERR_CLOSING")
    [] c.state = NGTCP2_CS_DRAINING -> Ret(c, "ERR_DRAINING")
    [] OTHER -> Ret(c, "OK")

\* The length of what a writer has put into the buffer: one datagram if it
\* has written packets.
nwrite_of(w) == IF w.rv = "NWRITE" THEN 1 ELSE 0

\* Before the client's address is verified the server may send three times
\* what it has received (an unsigned subtraction).
conn_server_hs_tx_left(c) ==
  IF "SADDR_VERIFIED" \in c.flags THEN UINT_MOD - 1
  ELSE usub((c.hs_recved * 3) % UINT_MOD, c.hs_sent % UINT_MOD)

conn_write_client_initial(c, left) ==
  The({conn_write_handshake_pkt(c1, left, NGTCP2_PKT_INITIAL) :
         c1 \in {conn_call_client_initial(c)}})

\* conn_retry_early_payloadlen: whether a STREAM frame of a 0-RTT packet
\* waits to be sent again (pending; the code returns its estimated length).
\* The streams at the top of tx.strmq that have no such frame leave the
\* queue.
RECURSIVE conn_retry_early_payloadlen(_)
conn_retry_early_payloadlen(c) ==
  IF c.tx.strmq = << >> THEN [conn |-> c, pending |-> FALSE]
  ELSE IF c.strms[Head(c.tx.strmq)].tx.streamfrq = << >>
  THEN conn_retry_early_payloadlen([c EXCEPT !.tx.strmq = Tail(@)])
  ELSE [conn |-> c, pending |-> TRUE]

\* conn_retransmit_retry_early writes a 0-RTT packet with the frames that
\* wait to be sent again after a Retry.
conn_retransmit_retry_early(c, left) ==
  conn_write_pkt(c, left, NGTCP2_PKT_0RTT, -1, FALSE, 0)

conn_write_handshake(c, origlen) ==
  LET left == cwnd_destlen(origlen, conn_cwnd_left(c))
      done(cx) ==
        conn_process_buffered_protected_pkt(
          [conn_handshake_completed(cx) EXCEPT !.state = NGTCP2_CS_POST_HANDSHAKE],
          "hs_pktns")
  IN IF conn_check_pkt_num_exhausted(c) THEN WRet(c, "ERR_PKT_NUM_EXHAUSTED", << >>, -1)
     ELSE
     CASE c.state = NGTCP2_CS_CLIENT_INITIAL ->
            The({
              The({
                IF ci.rv \notin {"OK", "NWRITE"} THEN ci
                ELSE IF "RECV_RETRY" \notin c.flags /\ ci.rv # "NWRITE" THEN ci
                ELSE The({
                  IF w.rv \notin {"OK", "NWRITE"} THEN w
                  ELSE WRet([w.conn EXCEPT !.state = NGTCP2_CS_CLIENT_WAIT_HANDSHAKE],
                            w.rv, w.pkts, -1) :
                  w \in {IF pe.pending
                         THEN The({WThen(ci, e) :
                                     e \in {conn_retransmit_retry_early(ci.conn, left)}})
                         ELSE ci}}) :
                ci \in {IF "RECV_RETRY" \notin c.flags
                        THEN conn_write_client_initial(pe.conn, left)
                        ELSE conn_write_handshake_pkt(pe.conn, left,
                                                      NGTCP2_PKT_INITIAL)}}) :
              pe \in {conn_retry_early_payloadlen(c)}})
       [] c.state = NGTCP2_CS_CLIENT_WAIT_HANDSHAKE ->
            The({
              The({
                IF "HANDSHAKE_COMPLETED" \notin w1c.flags
                THEN The({
                  The({
                    WRet([w3.conn EXCEPT !.flags =
                            IF w3.rv = "NWRITE" THEN @ \ {"FORCE_SEND_HANDSHAKE"}
                            ELSE @],
                         w3.rv, w3.pkts, -1) :
                    w3 \in {IF w2.rv = "OK"
                            THEN conn_write_handshake_ack_pkts(w2.conn, left, TRUE)
                            ELSE w2}}) :
                  w2 \in {The({WThen(WRet(w1c, w1.rv, w1.pkts, -1), e) :
                                 e \in {conn_retransmit_retry_early(w1c, left)}})}})
                ELSE IF "TRANSPORT_PARAM_RECVED" \notin w1c.flags
                THEN WRet(w1c, "ERR_REQUIRED_TRANSPORT_PARAM", w1.pkts, -1)
                ELSE The({WRet(d.conn, IF d.rv # "OK" THEN d.rv ELSE w1.rv,
                               w1.pkts, -1) : d \in {done(w1c)}}) :
                w1c \in {IF w1.conn.hs_pktns.tx.last_pkt_num # -1
                         THEN conn_discard_initial_key(w1.conn) ELSE w1.conn}}) :
              w1 \in {conn_write_handshake_pkts(
                        IF "HANDSHAKE_COMPLETED_HANDLED" \notin c.flags
                        THEN conn_retry_early_payloadlen(c).conn ELSE c, left)}})
       [] c.state = NGTCP2_CS_SERVER_INITIAL ->
            The({
              IF si.rv = "NWRITE"
              THEN WRet([si.conn EXCEPT !.state = NGTCP2_CS_SERVER_WAIT_HANDSHAKE,
                                        !.hs_sent = @ + nwrite_of(si)],
                        si.rv, si.pkts, -1)
              ELSE si :
              si \in {conn_write_server_handshake(c, left)}})
       [] c.state = NGTCP2_CS_SERVER_WAIT_HANDSHAKE ->
            IF "HANDSHAKE_COMPLETED" \notin c.flags
            THEN IF conn_server_hs_tx_left(c) = 0
                 THEN WRet([c EXCEPT !.rcs.loss_detection_timer = FALSE], "OK",
                           << >>, -1)
                 ELSE The({
                   IF si.rv \notin {"OK", "NWRITE"} THEN si
                   ELSE The({
                     IF sk.rv \notin {"OK", "NWRITE"} THEN WThen(si, sk)
                     ELSE The({
                       WRet([res.conn EXCEPT !.hs_sent = @ + nwrite_of(res)],
                            res.rv, res.pkts, -1) :
                       res \in {WThen(si, sk)}}) :
                     sk \in {conn_write_handshake_ack_pkts(
                               si.conn, IF si.rv = "OK" THEN origlen ELSE left,
                               si.rv = "OK")}}) :
                   si \in {conn_write_server_handshake(c, left)}})
            ELSE The({
              IF "TRANSPORT_PARAM_RECVED" \notin sa.conn.flags
              THEN WRet(sa.conn, "ERR_REQUIRED_TRANSPORT_PARAM", sa.pkts, -1)
              ELSE The({WRet(d.conn, IF d.rv # "OK" THEN d.rv ELSE sa.rv,
                             sa.pkts, -1) : d \in {done(sa.conn)}}) :
              sa \in {conn_write_handshake_ack_pkts(c, origlen, TRUE)}})
       [] c.state = NGTCP2_CS_CLOSING -> WRet(c, "ERR_CLOSING", << >>, -1)
       [] c.state = NGTCP2_CS_DRAINING -> WRet(c, "ERR_DRAINING", << >>, -1)
       [] OTHER -> WRet(c, "OK", << >>, -1)

ngtcp2_conn_write_handshake(c, left) == conn_write_handshake(c, left)

ngtcp2_conn_client_write_handshake(c, left, stream_id, fin, datalen) ==
  LET lookup == stream_id # -1 /\ "EARLY_DATA_REJECTED" \notin c.flags
      strm == c.strms[stream_id]
      checked == lookup /\ stream_id \in DOMAIN c.strms /\ "SHUT_WR" \notin strm.flags
      pe == conn_retry_early_payloadlen(c)
      send_stream ==
        /\ checked
        /\ ~pe.pending
        /\ \/ datalen = 0
           \/ /\ datalen > 0
              /\ usub(strm.tx.max_offset, strm.tx.offset) # 0
              /\ usub(c.tx.max_offset, c.tx.offset) # 0
  IN IF lookup /\ stream_id \notin DOMAIN c.strms
     THEN WRet(c, "ERR_STREAM_NOT_FOUND", << >>, -1)
     ELSE IF lookup /\ "SHUT_WR" \in strm.flags
     THEN WRet(c, "ERR_STREAM_SHUT_WR", << >>, -1)
     ELSE The({
       IF h.rv \notin {"OK", "NWRITE"} THEN h
       ELSE IF h.conn.pktns.crypto.tx.ckm \/ ~h.conn.early.ckm \/ ~send_stream THEN h
       ELSE The({
         IF e.rv = "ERR_STREAM_DATA_BLOCKED" THEN WRet(e.conn, h.rv, h.pkts, -1)
         ELSE WThen(h, e) :
         e \in {conn_write_pkt(h.conn, cwnd_destlen(left, conn_cwnd_left(h.conn)),
                               NGTCP2_PKT_0RTT, stream_id, fin, datalen)}}) :
       h \in {conn_write_handshake(IF checked THEN pe.conn ELSE c, left)}})

ngtcp2_conn_handshake_completed(c) ==
  [c EXCEPT !.flags = @ \cup {"HANDSHAKE_COMPLETED"}]

\* level is the packet-number space of the crypto level.
ngtcp2_conn_submit_crypto_data(c, level) ==
  [c EXCEPT ![level].crypto.tx.frq = @ + 1]

\* which is "tx" or "rx".
ngtcp2_conn_install_keys(c, ns, which) ==
  [c EXCEPT ![ns].crypto[which].ckm = TRUE]

ngtcp2_conn_install_early_keys(c) == [c EXCEPT !.early.ckm = TRUE]

(***************************************************************************)
(* Writing after the handshake, and closing.                               *)
(***************************************************************************)
\* conn_write_probe_ping writes a Short packet with a PING frame, and the
\* ACK frame if one is due.
conn_write_probe_ping(c, left) ==
  IF left = -1 THEN WRet(c, "OK", << >>, -1)
  ELSE The({
    LET pkt_num == c.pktns.tx.last_pkt_num + 1
        fr == [type |-> NGTCP2_FRAME_PING]
        c1 == IF a.ackfr # << >>
              THEN [a.conn EXCEPT !.pktns.acktr = ngtcp2_acktr_commit_ack(@)]
              ELSE a.conn
        c2 == conn_on_pkt_sent(c1, "pktns", pkt_num, {"PROBE", "ACK_ELICITING"}, <<fr>>)
    IN WRet([c2 EXCEPT !.pktns.tx.last_pkt_num = @ + 1], "NWRITE",
            <<[type |-> NGTCP2_PKT_SHORT, pkt_num |-> pkt_num,
               frames |-> <<fr>> \o a.ackfr]>>, -1) :
    a \in {conn_create_ack_frame(c, "pktns")}})

\* conn_write_probe_pkt writes a probe packet: what conn_write_pkt has to
\* send, or else a PING.  A packet written uses up one of the probes.
\* The probe attempt that uses up a probe whether or not it has written a
\* packet.
conn_write_probe_pkt_always(c, left, data_strm, fin, datalen) ==
  The({
    The({
      WRet([p.conn EXCEPT !.rcs.probe_pkt_left = @ - 1], p.rv, p.pkts, p.pdatalen) :
      p \in {IF w.rv \in {"OK", "ERR_STREAM_DATA_BLOCKED"}
              THEN conn_write_probe_ping(w.conn, left)
              ELSE w}}) :
    w \in {conn_write_pkt(c, left, NGTCP2_PKT_SHORT, data_strm, fin, datalen)}})

conn_write_probe_pkt(c, left, data_strm, fin, datalen) ==
  The({
    The({
      IF p.rv # "NWRITE" THEN p
      ELSE WRet([p.conn EXCEPT !.rcs.probe_pkt_left = @ - 1], p.rv, p.pkts, p.pdatalen) :
      p \in {IF w.rv \in {"OK", "ERR_STREAM_DATA_BLOCKED"}
              THEN conn_write_probe_ping(w.conn, left)
              ELSE w}}) :
    w \in {conn_write_pkt(c, left, NGTCP2_PKT_SHORT, data_strm, fin, datalen)}})

\* conn.callbacks.remove_connection_id is the value the application's
\* callback returns.
conn_call_remove_connection_id(c, cid) ==
  Ret(c, IF c.callbacks.remove_connection_id # "OK" THEN "ERR_CALLBACK_FAILURE"
         ELSE "OK")

\* ngtcp2_pq_top of scid.used: the entry that was retired first.  The
\* entries that are not retired come last.
scid_used_top(c) ==
  CHOOSE s \in {u \in c.scid.set : u.cid \in c.scid.used} :
    \A u \in c.scid.set : u.cid \in c.scid.used => s.ts_retired <= u.ts_retired

\* The second loop of conn_remove_retired_connection_id: the retired
\* destination connection IDs leave the ring oldest first.
RECURSIVE conn_remove_retired_dcid(_, _, _)
conn_remove_retired_dcid(rb, timeout, ts) ==
  IF rb = << >> \/ rb[1].ts_retired + timeout >= ts THEN rb
  ELSE conn_remove_retired_dcid(ngtcp2_ringbuf_pop_front(rb), timeout, ts)

\* The first loop of conn_remove_retired_connection_id.  done says that
\* the function returns from within the loop.
RECURSIVE conn_remove_retired_scid(_, _, _)
conn_remove_retired_scid(c, timeout, ts) ==
  IF c.scid.used = {} THEN [conn |-> c, rv |-> "OK", done |-> FALSE]
  ELSE LET scid == scid_used_top(c)
       IN IF scid.ts_retired = UINT64_MAX \/ scid.ts_retired + timeout >= ts
          THEN [conn |-> c, rv |-> "OK", done |-> TRUE]
          ELSE The({
            IF r.rv # "OK" THEN [conn |-> r.conn, rv |-> r.rv, done |-> TRUE]
            ELSE conn_remove_retired_scid(
                   [r.conn EXCEPT !.scid.set = @ \ {scid},
                                  !.scid.used = @ \ {scid.cid}],
                   timeout, ts) :
            r \in {conn_call_remove_connection_id(c, scid.cid)}})

\* conn_remove_retired_connection_id removes the source connection IDs
\* whose retirement is more than the timeout ago.
conn_remove_retired_connection_id(c, ts) ==
  The({IF s.done THEN Ret(s.conn, s.rv)
       ELSE Ret([s.conn EXCEPT !.dcid.retired =
                   conn_remove_retired_dcid(@, conn_retired_timeout(c), ts)], "OK") :
         s \in {conn_remove_retired_scid(c, conn_retired_timeout(c), ts)}})

conn_peer_has_unused_cid(c) ==
  Cardinality(c.scid.set) - Cardinality(c.scid.used) > 0

\* conn_write_path_challenge sends the next PATH_CHALLENGE of the running
\* validation, unless its deadline has passed: then the validation has
\* failed.
conn_write_path_challenge(c, left) ==
  LET ts == c.log.last_ts
      pv0 == ngtcp2_pv_ensure_start(c.pv[1], ts)
      pv1 == ngtcp2_pv_handle_entry_expiry(pv0, ts)
      data == c.callbacks.rand.data
      expiry == ts + 6 * NGTCP2_DEFAULT_INITIAL_RTT * (2 ^ pv1.loss_count)
  IN IF ngtcp2_pv_validation_timed_out(pv0, ts)
     THEN The({WRet(r.conn, r.rv, << >>, -1) :
                 r \in {conn_on_path_validation_failed([c EXCEPT !.pv = <<pv0>>])}})
     ELSE IF ngtcp2_pv_full(pv1) THEN WRet([c EXCEPT !.pv = <<pv1>>], "OK", << >>, -1)
     ELSE IF c.callbacks.rand.rv # "OK"
     THEN WRet([c EXCEPT !.pv = <<pv1>>], "ERR_CALLBACK_FAILURE", << >>, -1)
     ELSE conn_write_single_frame_pkt(
            [c EXCEPT !.pv = <<ngtcp2_pv_add_entry(pv1, data, expiry)>>], left,
            NGTCP2_PKT_SHORT, [type |-> NGTCP2_FRAME_PATH_CHALLENGE, data |-> data],
            {"ACK_ELICITING"})

\* conn_bind_dcid gives the path a connection ID of its own: the one bound
\* to it, or else the first unused one.
conn_bind_dcid(c, path) ==
  LET found == {i \in DOMAIN c.dcid.bound : c.dcid.bound[i].path = path}
      c1 == IF ngtcp2_ringbuf_full(c.dcid.bound, NGTCP2_MAX_BOUND_DCID_POOL_SIZE)
            THEN conn_retire_dcid(c, c.dcid.bound[1])
            ELSE c
  IN IF found # {} THEN Ret(c, "OK")
     ELSE IF c.dcid.unused = << >> THEN Ret(c, "ERR_CONN_ID_BLOCKED")
     ELSE Ret([c1 EXCEPT !.dcid.bound =
                           ngtcp2_ringbuf_push_back(
                             @, NGTCP2_MAX_BOUND_DCID_POOL_SIZE,
                             [c.dcid.unused[1] EXCEPT !.path = path]),
                         !.dcid.unused = ngtcp2_ringbuf_pop_front(@)], "OK")

\* conn_write_path_response answers the oldest PATH_CHALLENGE in
\* rx.path_challenge.  The client drops the challenges that came on a path
\* it does not know.
RECURSIVE conn_write_path_response(_, _)
conn_write_path_response(c, left) ==
  IF c.rx.path_challenge = << >> THEN WRet(c, "OK", << >>, -1)
  ELSE
  LET pcent == c.rx.path_challenge[1]
      known == \/ c.dcid.current.path = pcent.path
               \/ c.pv # << >> /\ c.pv[1].dcid.path = pcent.path
  IN IF ~known /\ ~c.server
     THEN conn_write_path_response(
            [c EXCEPT !.rx.path_challenge = ngtcp2_ringbuf_pop_front(@)], left)
     ELSE The({
       IF b.rv # "OK"
       THEN WRet(b.conn, IF ngtcp2_err_is_fatal(b.rv) THEN b.rv ELSE "OK", << >>, -1)
       ELSE The({
         IF w.rv # "NWRITE" THEN w
         ELSE WRet([w.conn EXCEPT !.rx.path_challenge = ngtcp2_ringbuf_pop_front(@)],
                   w.rv, w.pkts, w.pdatalen) :
         w \in {conn_write_single_frame_pkt(
                  b.conn, left, NGTCP2_PKT_SHORT,
                  [type |-> NGTCP2_FRAME_PATH_RESPONSE, data |-> pcent.data],
                  {"ACK_ELICITING"})}}) :
       b \in {IF known THEN Ret(c, "OK") ELSE conn_bind_dcid(c, pcent.path)}})

\* The path validation steps of ngtcp2_conn_write_pkt and
\* ngtcp2_conn_writev_stream: a PATH_RESPONSE that is due goes first, then
\* a PATH_CHALLENGE of the running validation.
conn_write_path_pkts(c, left) ==
  The({
    IF r.rv # "OK" THEN r
    ELSE IF r.conn.pv # << >> /\ conn_peer_has_unused_cid(r.conn)
    THEN conn_write_path_challenge(r.conn, left)
    ELSE r :
    r \in {conn_write_path_response(c, left)}})

ngtcp2_conn_write_pkt(c, origlen) ==
  IF c.pktns.tx.last_pkt_num = NGTCP2_MAX_PKT_NUM
  THEN WRet(c, "ERR_PKT_NUM_EXHAUSTED", << >>, -1)
  ELSE
  CASE c.state = NGTCP2_CS_POST_HANDSHAKE ->
         The({
           IF rm.rv # "OK" THEN WRet(rm.conn, rm.rv, << >>, -1)
           ELSE
           The({
           IF pw.rv # "OK" THEN pw
           ELSE
           The({
           IF h.rv # "OK" THEN h
           ELSE The({
             IF a.rv # "OK" THEN a
             ELSE IF a.conn.rcs.probe_pkt_left # 0
             THEN conn_write_probe_pkt(a.conn, origlen, -1, FALSE, 0)
             ELSE The({
               IF w.rv # "OK" THEN w
               ELSE conn_write_protected_ack_pkt(w.conn, origlen) :
               w \in {conn_write_pkt(a.conn, left, NGTCP2_PKT_SHORT, -1, FALSE, 0)}}) :
             a \in {conn_write_handshake_ack_pkts(h.conn, origlen, TRUE)}}) :
           h \in {IF conn_handshake_remnants_left(pw.conn)
                  THEN conn_write_handshake_pkts(
                         pw.conn, cwnd_destlen(origlen, conn_cwnd_left(pw.conn)))
                  ELSE WRet(pw.conn, "OK", << >>, -1)},
           left \in {cwnd_destlen(origlen, conn_cwnd_left(pw.conn))}}) :
           pw \in {conn_write_path_pkts(rm.conn, origlen)}}) :
           rm \in {conn_remove_retired_connection_id(c, c.log.last_ts)}})
    [] c.state = NGTCP2_CS_CLOSING -> WRet(c, "ERR_CLOSING", << >>, -1)
    [] c.state = NGTCP2_CS_DRAINING -> WRet(c, "ERR_DRAINING", << >>, -1)
    [] OTHER -> WRet(c, "ERR_INVALID_STATE", << >>, -1)

ngtcp2_conn_writev_stream(c, origlen, stream_id, fin, datalen) ==
  LET strm == c.strms[stream_id]
  IN IF c.state = NGTCP2_CS_CLOSING THEN WRet(c, "ERR_CLOSING", << >>, -1)
     ELSE IF c.state = NGTCP2_CS_DRAINING THEN WRet(c, "ERR_DRAINING", << >>, -1)
     ELSE IF conn_check_pkt_num_exhausted(c)
     THEN WRet(c, "ERR_PKT_NUM_EXHAUSTED", << >>, -1)
     ELSE The({
       IF rm.rv # "OK" THEN WRet(rm.conn, rm.rv, << >>, -1)
       ELSE
       IF stream_id \notin DOMAIN rm.conn.strms
       THEN WRet(rm.conn, "ERR_STREAM_NOT_FOUND", << >>, -1)
       ELSE IF "SHUT_WR" \in strm.flags THEN WRet(rm.conn, "ERR_STREAM_SHUT_WR", << >>, -1)
       ELSE The({
       IF pw.rv # "OK" THEN pw
       ELSE IF pw.conn.server /\ conn_server_hs_tx_left(pw.conn) = 0
       THEN WRet([pw.conn EXCEPT !.rcs.loss_detection_timer = FALSE], "OK", << >>, -1)
       ELSE The({
         IF h.rv # "OK" THEN h
         ELSE The({
           IF a.rv # "OK" THEN a
           ELSE IF a.conn.pktns.crypto.tx.ckm /\ a.conn.rcs.probe_pkt_left # 0
           THEN conn_write_probe_pkt(a.conn, origlen, stream_id, fin, datalen)
           ELSE IF a.conn.pktns.crypto.tx.ckm
           THEN The({
             IF w.rv = "OK" THEN conn_write_protected_ack_pkt(w.conn, origlen) ELSE w :
             w \in {conn_write_pkt(a.conn, left, NGTCP2_PKT_SHORT, stream_id, fin,
                                   datalen)}})
           ELSE IF pw.conn.server \/ ~a.conn.early.ckm
           THEN WRet(a.conn, "ERR_NOKEY", << >>, -1)
           ELSE IF "EARLY_DATA_REJECTED" \in a.conn.flags
           THEN WRet(a.conn, "ERR_EARLY_DATA_REJECTED", << >>, -1)
           ELSE conn_write_pkt(a.conn, left, NGTCP2_PKT_0RTT, stream_id, fin, datalen) :
           a \in {conn_write_handshake_ack_pkts(h.conn, origlen, TRUE)}}) :
         h \in {IF conn_handshake_remnants_left(pw.conn)
                THEN conn_write_handshake_pkts(
                       pw.conn, cwnd_destlen(origlen, conn_cwnd_left(pw.conn)))
                ELSE WRet(pw.conn, "OK", << >>, -1)},
         left \in {cwnd_destlen(origlen, conn_cwnd_left(pw.conn))}}) :
       pw \in {conn_write_path_pkts(rm.conn, origlen)}}) :
       rm \in {conn_remove_retired_connection_id(c, c.log.last_ts)}})

\* A close that writes the packet and leaves the state alone.
conn_write_close_keep(c, left, pkt_type, frame_type, error_code) ==
  conn_write_single_frame_pkt(c, left, pkt_type,
    [type |-> frame_type, error_code |-> error_code], {})

\* The variant of the close: CONNECTION_CLOSE or CONNECTION_CLOSE_APP.
conn_write_close(c, left, pkt_type, frame_type, error_code) ==
  The({
    IF w.rv = "NWRITE"
    THEN WRet([w.conn EXCEPT !.state = NGTCP2_CS_CLOSING], w.rv, w.pkts, -1)
    ELSE w :
    w \in {conn_write_single_frame_pkt(c, left, pkt_type,
             [type |-> frame_type, error_code |-> error_code], {})}})

\* The close writer without the test of the connection state.
ngtcp2_conn_write_connection_close_any_state(c, left, error_code) ==
  IF conn_check_pkt_num_exhausted(c) THEN WRet(c, "ERR_PKT_NUM_EXHAUSTED", << >>, -1)
  ELSE conn_write_close(c, left,
         IF c.state \in {NGTCP2_CS_POST_HANDSHAKE, NGTCP2_CS_CLOSING, NGTCP2_CS_DRAINING}
         THEN NGTCP2_PKT_SHORT
         ELSE IF c.hs_pktns.crypto.tx.ckm THEN NGTCP2_PKT_HANDSHAKE
         ELSE NGTCP2_PKT_INITIAL,
         NGTCP2_FRAME_CONNECTION_CLOSE, error_code)

ngtcp2_conn_write_connection_close(c, left, error_code) ==
  IF conn_check_pkt_num_exhausted(c) THEN WRet(c, "ERR_PKT_NUM_EXHAUSTED", << >>, -1)
  ELSE IF c.state \in {NGTCP2_CS_CLOSING, NGTCP2_CS_DRAINING}
  THEN WRet(c, "ERR_INVALID_STATE", << >>, -1)
  ELSE conn_write_close(c, left,
         IF c.state = NGTCP2_CS_POST_HANDSHAKE THEN NGTCP2_PKT_SHORT
         ELSE IF c.hs_pktns.crypto.tx.ckm THEN NGTCP2_PKT_HANDSHAKE
         ELSE NGTCP2_PKT_INITIAL,
         NGTCP2_FRAME_CONNECTION_CLOSE, error_code)

ngtcp2_conn_write_application_close(c, left, app_error_code) ==
  IF conn_check_pkt_num_exhausted(c) THEN WRet(c, "ERR_PKT_NUM_EXHAUSTED", << >>, -1)
  ELSE IF c.state # NGTCP2_CS_POST_HANDSHAKE THEN WRet(c, "ERR_INVALID_STATE", << >>, -1)
  ELSE conn_write_close(c, left, NGTCP2_PKT_SHORT,
                        NGTCP2_FRAME_CONNECTION_CLOSE_APP, app_error_code)

(***************************************************************************)
(* The state machine.  Every action is one call of an API function by the  *)
(* application (or by its TLS stack); the inputs are chosen by the         *)
(* environment.                                                            *)
(***************************************************************************)
Spaces == {"in_pktns", "hs_pktns", "pktns"}

\* The packet numbers written so far once pkts are written as well.
SentAfter(pkts) ==
  [ns \in Spaces |->
     sent[ns] \cup {pkts[i].pkt_num : i \in {j \in DOMAIN pkts : pktns_of(pkts[j].type) = ns}}]

\* What the variable last records of a call: the function, its input, the
\* stream bytes a writer accepted (pdatalen), and for a received packet
\* whether its packet number repeats one already processed in its space.
Call(op, in) == [op |-> op, in |-> in, pdatalen |-> -1, dup |-> FALSE]

\* The record of a call that hands the packet p to the library.
\* It keeps the recovery counters and the retransmission buffer of the
\* packet's space as they are when the call is made.
RecvCall(op, p) ==
  [Call(op, p) EXCEPT !.dup = p.pkt_num \in conn[pktns_of(p.type)].rx.pngap]
    @@ [rcs |-> [crypto_count |-> conn.rcs.crypto_count,
                 pto_count |-> conn.rcs.pto_count,
                 probe_pkt_left |-> conn.rcs.probe_pkt_left],
        in_flight |-> {e.pkt_num : e \in conn[pktns_of(p.type)].rtb.ents}]

\* A call that writes no packet.
DoRet(r, call) ==
  /\ conn' = r.conn
  /\ rv' = r.rv
  /\ last' = call
  /\ dest' = << >>
  /\ fatal' = (fatal \/ ngtcp2_err_is_fatal(r.rv))
  /\ UNCHANGED sent

\* A call of a packet writer.
DoWrite(r, call) ==
  /\ conn' = r.conn
  /\ rv' = r.rv
  /\ last' = [call EXCEPT !.pdatalen = r.pdatalen]
  /\ dest' = r.pkts
  /\ sent' = SentAfter(r.pkts)
  /\ fatal' = (fatal \/ ngtcp2_err_is_fatal(r.rv))

\* The room the application's buffer offers: none, or enough for the
\* header and this many bytes of stream data.
Lefts == {-1, 4, 8}

NoCall == Call("new", << >>)

InitWith(c) ==
  /\ conn = c
  /\ rv = "OK"
  /\ last = NoCall
  /\ dest = << >>
  /\ sent = [ns \in Spaces |-> {}]
  /\ fatal = FALSE

\* The state in which a specification takes up a connection c that has
\* already written packets.
InitAt(c) ==
  /\ conn = c
  /\ rv = "OK"
  /\ last = NoCall
  /\ dest = << >>
  /\ sent = [ns \in Spaces |-> 0..c[ns].tx.last_pkt_num]
  /\ fatal = FALSE

\* A packet the peer protected properly under the keys of its space.  It
\* is the only packet of its datagram.  Lengths are counted in datagrams:
\* every datagram, received or written, is taken to have the same length.
Pkt(type, pkt_num, pkt_numlen, frames) ==
  [type |-> type, pkt_num |-> pkt_num, pkt_numlen |-> pkt_numlen, rsv_ok |-> TRUE,
   key_phase |-> FALSE, auth |-> TRUE, sr |-> FALSE, dcid |-> << >>,
   frames |-> frames, pktlen |-> 1, path |-> 0]

\* A Retry packet and a Version Negotiation packet: they have no packet
\* number and no frames.
RetryPkt(odcid_ok, tokenlen, cb, malformed) ==
  Pkt(NGTCP2_PKT_RETRY, 0, 1, << >>)
    @@ [odcid_ok |-> odcid_ok, tokenlen |-> tokenlen, cb |-> cb,
        malformed |-> malformed, scid |-> <<1>>]

VersionNegotiationPkt(dcid_ok, scid_ok, cb, malformed) ==
  Pkt(NGTCP2_PKT_VERSION_NEGOTIATION, 0, 1, << >>)
    @@ [dcid_ok |-> dcid_ok, scid_ok |-> scid_ok, cb |-> cb, malformed |-> malformed]

\* The packet number of the peer's first packet in a space, or -1 once a
\* packet of the space has been received.
FirstRx(ns) == IF conn[ns].rx.max_pkt_num = -1 THEN 0 ELSE -1

\* The next packet number the peer uses in a space when nothing is lost or
\* reordered, or -1 when the model's packet numbers are used up.
NextRx(ns) ==
  IF conn[ns].rx.max_pkt_num < MaxRxPktNum THEN conn[ns].rx.max_pkt_num + 1 ELSE -1

\* A CRYPTO frame whose bytes make the TLS stack return tls.
CryptoFrameTls(tls) ==
  [type |-> NGTCP2_FRAME_CRYPTO, offset |-> 0, datalen |-> 1, tls |-> tls]

CryptoFrame == CryptoFrameTls("OK")

\* Transport parameters of the peer with the given connection and stream
\* data limits.
Params(max_data, max_stream_data) ==
  [max_data |-> max_data,
   max_stream_data_bidi_local |-> max_stream_data,
   max_stream_data_bidi_remote |-> max_stream_data,
   max_stream_data_uni |-> max_stream_data,
   max_streams_bidi |-> 1,
   max_streams_uni |-> 1,
   max_ack_delay |-> NGTCP2_DEFAULT_MAX_ACK_DELAY]

ParamSet == {Params(m, MaxOff - 1) : m \in 1..(MaxOff - 1)}

\* A client connection after a handshake without early data: the client
\* has written its Initial, read the server's Initial and Handshake, the
\* TLS stack has installed the keys and the server's transport parameters
\* and reported completion, and a last write_handshake call has moved the
\* connection to NGTCP2_CS_POST_HANDSHAKE.
Established ==
  The({
    The({
      The({
        The({
          The({w2.conn :
                 w2 \in {ngtcp2_conn_client_write_handshake(k2, 8, -1, FALSE, 0)}}) :
          k2 \in {ngtcp2_conn_handshake_completed(
                    ngtcp2_conn_install_keys(
                      ngtcp2_conn_install_keys(
                        ngtcp2_conn_set_remote_transport_params(
                          r2.conn, Params(MaxOff - 1, MaxOff - 1), TRUE).conn,
                        "pktns", "tx"),
                      "pktns", "rx"))}}) :
        r2 \in {ngtcp2_conn_read_handshake(
                  k1, Pkt(NGTCP2_PKT_HANDSHAKE, 0, 2, <<CryptoFrame>>))}}) :
      k1 \in {ngtcp2_conn_install_keys(
                ngtcp2_conn_install_keys(
                  ngtcp2_conn_read_handshake(
                    w1.conn, Pkt(NGTCP2_PKT_INITIAL, 0, 2, <<CryptoFrame>>)).conn,
                  "hs_pktns", "tx"),
                "hs_pktns", "rx")}}) :
    w1 \in {ngtcp2_conn_client_write_handshake(conn_new(FALSE), 8, -1, FALSE, 0)}})

(***************************************************************************)
(* API calls as actions.                                                   *)
(***************************************************************************)
\* The TLS stack resumes a session: it installs the remembered transport
\* parameters of the server.
SetEarlyRemoteTransportParams ==
  /\ ~conn.server
  /\ conn.state = NGTCP2_CS_CLIENT_INITIAL
  /\ conn.remote.settings = zero_settings
  /\ \E params \in ParamSet :
       \E r \in {Ret(ngtcp2_conn_set_early_remote_transport_params(conn, params), "OK")} :
         DoRet(r, Call("set_early_remote_transport_params", params))

InstallEarlyKeys ==
  /\ ~conn.early.ckm
  /\ conn.state \in {NGTCP2_CS_CLIENT_INITIAL, NGTCP2_CS_SERVER_INITIAL}
  /\ conn.server \/ conn.remote.settings # zero_settings
  /\ \E r \in {Ret(ngtcp2_conn_install_early_keys(conn), "OK")} :
       DoRet(r, Call("install_early_keys", << >>))

\* The TLS stack installs the keys of a level once it has read the peer's
\* handshake data of the level before, the sending key first.
InstallKeys ==
  \E ns \in {"hs_pktns", "pktns"}, which \in {"tx", "rx"} :
    /\ ~conn[ns].crypto[which].ckm
    /\ which = "rx" => conn[ns].crypto.tx.ckm
    /\ conn.state \notin {NGTCP2_CS_CLOSING, NGTCP2_CS_DRAINING}
    /\ IF ns = "hs_pktns" THEN conn.in_pktns.crypto.strm.rx_offset > 0
       ELSE conn.hs_pktns.crypto.rx.ckm /\ conn.hs_pktns.crypto.tx.ckm
            /\ (conn.server \/ conn.hs_pktns.crypto.strm.rx_offset > 0)
    /\ \E r \in {Ret(ngtcp2_conn_install_keys(conn, ns, which), "OK")} :
         DoRet(r, Call("install_keys", <<ns, which>>))

\* The TLS stack has read the peer's transport parameters.
SetRemoteTransportParams ==
  /\ "TRANSPORT_PARAM_RECVED" \notin conn.flags
  /\ conn.state \notin {NGTCP2_CS_CLOSING, NGTCP2_CS_DRAINING}
  /\ IF conn.server THEN conn.in_pktns.crypto.strm.rx_offset > 0
     ELSE conn.hs_pktns.crypto.strm.rx_offset > 0
  /\ \E params \in ParamSet :
       \E r \in {ngtcp2_conn_set_remote_transport_params(conn, params, TRUE)} :
         DoRet(r, Call("set_remote_transport_params", params))

HandshakeCompleted ==
  /\ "HANDSHAKE_COMPLETED" \notin conn.flags
  /\ conn.pktns.crypto.tx.ckm /\ conn.pktns.crypto.rx.ckm
  /\ conn.hs_pktns.crypto.strm.rx_offset > 0
  /\ \E r \in {Ret(ngtcp2_conn_handshake_completed(conn), "OK")} :
       DoRet(r, Call("handshake_completed", << >>))

OpenBidiStream ==
  \E r \in {ngtcp2_conn_open_bidi_stream(conn)} :
    DoRet(r, Call("open_bidi_stream", << >>))

ClientWriteHandshake(lefts, sids, lens) ==
  /\ ~conn.server
  /\ \E left \in lefts, sid \in sids, fin \in {FALSE}, datalen \in lens :
       /\ sid = -1 => datalen = 0
       /\ \E r \in {ngtcp2_conn_client_write_handshake(conn, left, sid, fin, datalen)} :
            DoWrite(r, Call("client_write_handshake",
                            [left |-> left, stream_id |-> sid]))

WriteHandshake(lefts) ==
  \E left \in lefts :
    \E r \in {ngtcp2_conn_write_handshake(conn, left)} :
      DoWrite(r, Call("write_handshake", [left |-> left]))

WritevStream(lefts, sids, fins, lens) ==
  \E left \in lefts, sid \in sids, fin \in fins, datalen \in lens :
    \E r \in {ngtcp2_conn_writev_stream(conn, left, sid, fin, datalen)} :
      DoWrite(r, Call("writev_stream", [left |-> left, stream_id |-> sid]))

WritePkt(lefts) ==
  \E left \in lefts :
    \E r \in {ngtcp2_conn_write_pkt(conn, left)} :
      DoWrite(r, Call("write_pkt", [left |-> left]))

\* The application closes the connection.  Before the handshake is over
\* the packet is protected with the Handshake or Initial key, one of which
\* must exist.
WriteConnectionClose(lefts, codes) ==
  /\ \/ conn.state = NGTCP2_CS_POST_HANDSHAKE
     \/ conn.hs_pktns.crypto.tx.ckm
     \/ conn.in_pktns.crypto.tx.ckm
  /\ \E left \in lefts, error_code \in codes :
       \E r \in {ngtcp2_conn_write_connection_close(conn, left, error_code)} :
         DoWrite(r, Call("write_connection_close",
                         [left |-> left, error_code |-> error_code]))

WriteApplicationClose(lefts, codes) ==
  \E left \in lefts, app_error_code \in codes :
    \E r \in {ngtcp2_conn_write_application_close(conn, left, app_error_code)} :
      DoWrite(r, Call("write_application_close",
                      [left |-> left, error_code |-> app_error_code]))

\* The number of datagrams a connection receives during the handshake.
MaxHsRecved == 3

\* The application hands a datagram received during the handshake to the
\* library.  A Handshake packet comes only once its keys are installed.
ReadHandshake(pkts) ==
  \E p \in pkts :
    /\ p.pkt_num >= 0
    /\ conn.hs_recved < MaxHsRecved
    /\ p.type = NGTCP2_PKT_HANDSHAKE => conn.hs_pktns.crypto.rx.ckm
    /\ \E r \in {ngtcp2_conn_read_handshake(conn, p)} :
         DoRet(r, RecvCall("read_handshake", p))

\* The application hands a datagram received after the handshake to the
\* library.
ReadPkt(pkts) ==
  \E p \in pkts :
    /\ p.pkt_num >= 0
    /\ conn[pktns_of(p.type)].crypto.rx.ckm
    /\ \E r \in {ngtcp2_conn_read_pkt(conn, p)} :
         DoRet(r, RecvCall("read_pkt", p))

(***************************************************************************)
(* SpecFc: a client that resumes a session, sends 0-RTT and 1-RTT stream   *)
(* data on the stream it opens, and receives the server's flow-control     *)
(* updates.                                                                *)
(***************************************************************************)
FcHsPkts ==
  {Pkt(NGTCP2_PKT_INITIAL, FirstRx("in_pktns"), 2, <<CryptoFrame>>),
   Pkt(NGTCP2_PKT_HANDSHAKE, FirstRx("hs_pktns"), 2, <<CryptoFrame>>)}

FcPkts ==
  {Pkt(NGTCP2_PKT_SHORT, NextRx("pktns"), 2, <<fr>>) :
     fr \in {[type |-> NGTCP2_FRAME_MAX_DATA, max_data |-> MaxOff],
             [type |-> NGTCP2_FRAME_MAX_STREAM_DATA, stream_id |-> 0,
              max_stream_data |-> MaxOff]}}

InitFc == InitWith(conn_new(FALSE))

NextFc ==
  \/ SetEarlyRemoteTransportParams
  \/ InstallEarlyKeys
  \/ OpenBidiStream
  \/ ClientWriteHandshake({8}, {-1, 0}, {0, MaxOff})
  \/ ReadHandshake(FcHsPkts)
  \/ InstallKeys
  \/ SetRemoteTransportParams
  \/ HandshakeCompleted
  \/ WritevStream({8}, {0}, {FALSE}, {1, MaxOff})
  \/ ReadPkt(FcPkts)

SpecFc == InitFc /\ [][NextFc]_vars

\* C1: whenever the last call wrote STREAM bytes, the connection's and the
\* stream's send offsets are within the limits the peer has granted.
C1_StreamBytesWithinLimits ==
  \A i \in DOMAIN dest : \A k \in DOMAIN dest[i].frames :
    LET fr == dest[i].frames[k]
    IN (fr.type = NGTCP2_FRAME_STREAM /\ fr.datalen > 0) =>
         /\ conn.tx.offset <= conn.tx.max_offset
         /\ fr.stream_id \in DOMAIN conn.strms =>
              conn.strms[fr.stream_id].tx.offset <= conn.strms[fr.stream_id].tx.max_offset

(***************************************************************************)
(* SpecRx: an established client receives STREAM and RESET_STREAM frames   *)
(* on the streams the server may open, in any order, with any overlap and  *)
(* repetition, and writes the packets that become due.  The application    *)
(* stops handing packets over once a call has failed.                      *)
(***************************************************************************)
\* The streams the server may open.
RxStreams == {1, 3}

\* Stream 1 (bidirectional) receives every kind of frame; stream 3
\* (unidirectional) receives its only byte or a reset, which take up the
\* connection's window beside stream 1 and close the stream.
RxFrames ==
  {[type |-> NGTCP2_FRAME_STREAM, stream_id |-> 1, offset |-> o, datalen |-> n,
    fin |-> f] : o \in 0..(MaxOff - 1), n \in 1..2, f \in BOOLEAN}
    \cup
  {[type |-> NGTCP2_FRAME_STREAM, stream_id |-> 1, offset |-> o, datalen |-> 0,
    fin |-> TRUE] : o \in 0..(MaxOff - 1)}
    \cup
  {[type |-> NGTCP2_FRAME_RESET_STREAM, stream_id |-> 1, final_size |-> n] :
     n \in 0..MaxOff}
    \cup
  {[type |-> NGTCP2_FRAME_STREAM, stream_id |-> 3, offset |-> 0, datalen |-> 1,
    fin |-> TRUE],
   [type |-> NGTCP2_FRAME_RESET_STREAM, stream_id |-> 3, final_size |-> MaxOff]}

RxPkts == {Pkt(NGTCP2_PKT_SHORT, NextRx("pktns"), 2, <<fr>>) : fr \in RxFrames}

Failed == rv \notin {"OK", "NWRITE"}

InitRx == InitAt(Established)

NextRx_ ==
  \/ ~Failed /\ ReadPkt(RxPkts)
  \/ ~Failed /\ WritePkt({8})

SpecRx == InitRx /\ [][NextRx_]_vars

\* The one frame of the packet a read call was handed.
RxFrame(call) == call.in.frames[1]

\* The call handed over a packet with a STREAM or RESET_STREAM frame.
RxStreamCall(call) ==
  /\ call.op = "read_pkt"
  /\ RxFrame(call).type \in {NGTCP2_FRAME_STREAM, NGTCP2_FRAME_RESET_STREAM}

\* The stream of the frame is open, or the frame opens it: it is a stream
\* of the peer that has not been opened before.
RxStreamOpen(c, fr) ==
  \/ fr.stream_id \in DOMAIN c.strms
  \/ /\ ~conn_local_stream(c, fr.stream_id)
     /\ fr.stream_id \notin
          c.remote[IF bidi_stream(fr.stream_id) THEN "bidi" ELSE "uni"].idtr

\* The receive limit and the largest offset seen so far of the frame's
\* stream; a stream the frame opens starts with the advertised limit.
RxMaxOffset(c, fr) ==
  IF fr.stream_id \in DOMAIN c.strms THEN c.strms[fr.stream_id].rx.max_offset
  ELSE IF bidi_stream(fr.stream_id) THEN c.local.settings.max_stream_data_bidi_remote
  ELSE c.local.settings.max_stream_data_uni

RxLastOffset(c, fr) ==
  IF fr.stream_id \in DOMAIN c.strms THEN c.strms[fr.stream_id].rx.last_offset ELSE 0

\* The end offset of a STREAM frame, the final size of a RESET_STREAM.
RxEnd(fr) ==
  IF fr.type = NGTCP2_FRAME_STREAM THEN fr.offset + fr.datalen ELSE fr.final_size

\* The frame is beyond the stream's limit, or the bytes it newly counts
\* are more than the connection's window has left.
RxExceeds(c, fr) ==
  \/ RxEnd(fr) > RxMaxOffset(c, fr)
  \/ RxEnd(fr) - RxLastOffset(c, fr) > c.rx.max_offset - c.rx.offset

\* The final size of the frame's stream is known and the frame contradicts
\* it.
RxContradictsFinalSize(c, fr) ==
  /\ fr.stream_id \in DOMAIN c.strms
  /\ "SHUT_RD" \in c.strms[fr.stream_id].flags
  /\ IF fr.type = NGTCP2_FRAME_STREAM
     THEN \/ RxEnd(fr) > c.strms[fr.stream_id].rx.last_offset
          \/ fr.fin /\ RxEnd(fr) # c.strms[fr.stream_id].rx.last_offset
     ELSE fr.final_size # c.strms[fr.stream_id].rx.last_offset

C2_Original_Step ==
  RxStreamCall(last') /\ RxStreamOpen(conn, RxFrame(last')) =>
    /\ RxExceeds(conn, RxFrame(last')) => rv' = "ERR_FLOW_CONTROL"
    /\ rv' = "OK" => conn'.rx.offset <= conn'.rx.max_offset

\* C2 as the specification states it: every STREAM or RESET_STREAM frame
\* beyond the stream's or the connection's receive limit is rejected with
\* FLOW_CONTROL, and conn.rx.offset <= conn.rx.max_offset after a frame
\* that was processed successfully.
C2_Original == [][C2_Original_Step]_vars

C2_Step ==
  RxStreamCall(last') /\ RxStreamOpen(conn, RxFrame(last')) =>
    /\ RxExceeds(conn, RxFrame(last')) =>
         rv' = IF /\ RxFrame(last').type = NGTCP2_FRAME_RESET_STREAM
                  /\ RxContradictsFinalSize(conn, RxFrame(last'))
               THEN "ERR_FINAL_SIZE" ELSE "ERR_FLOW_CONTROL"
    /\ conn'.rx.offset <= conn'.rx.max_offset

\* C2 (amended): a STREAM or RESET_STREAM frame on a stream that is open or
\* that it opens, beyond the stream's rx.max_offset or counting more new
\* bytes than the connection's window has left, is rejected: with
\* FLOW_CONTROL, except that a RESET_STREAM which contradicts the known
\* final size of its stream is rejected with FINAL_SIZE.  conn.rx.offset
\* <= conn.rx.max_offset holds after every frame, accepted or rejected.
C2_FlowControlEnforced == [][C2_Step]_vars

\* A frame on stream 3 that fits the stream's own limit is rejected because
\* stream 1 has used up the connection's window.
C2_Witness ==
  /\ RxStreamCall(last)
  /\ rv = "ERR_FLOW_CONTROL"
  /\ RxFrame(last).stream_id = 3
  /\ RxEnd(RxFrame(last)) = 1
  /\ conn.rx.offset = conn.rx.max_offset

C3_Original_Step ==
  RxStreamCall(last') /\ RxContradictsFinalSize(conn, RxFrame(last')) =>
    rv' = "ERR_FINAL_SIZE"

C3_Step ==
  RxStreamCall(last') /\ RxContradictsFinalSize(conn, RxFrame(last')) =>
    rv' = IF /\ RxFrame(last').type = NGTCP2_FRAME_STREAM
             /\ RxExceeds(conn, RxFrame(last'))
          THEN "ERR_FLOW_CONTROL" ELSE "ERR_FINAL_SIZE"

Deliveries(sid) == SelectSeq(conn.user_data, LAMBDA ev : ev.stream_id = sid)

\* The offset at which the i-th callback of a stream has to start.
DeliveredBefore(d, i) == IF i = 1 THEN 0 ELSE d[i - 1].offset + Len(d[i - 1].data)

\* C4: the bytes handed to recv_stream_data form the in-order byte stream
\* from offset 0: every callback of a stream starts where the one before
\* ended, and the k-th byte handed over is the stream's byte at that offset.
C4_InOrderDelivery ==
  \A sid \in RxStreams :
    \A i \in DOMAIN Deliveries(sid) :
      /\ Deliveries(sid)[i].offset = DeliveredBefore(Deliveries(sid), i)
      /\ \A k \in DOMAIN Deliveries(sid)[i].data :
           Deliveries(sid)[i].data[k] = Deliveries(sid)[i].offset + k - 1

\* A frame that overlaps bytes already delivered has filled a gap: its new
\* bytes and the bytes buffered behind them were handed over after the
\* first delivery.
C4_Witness ==
  /\ RxStreamCall(last)
  /\ rv = "OK"
  /\ RxFrame(last).type = NGTCP2_FRAME_STREAM
  /\ Len(Deliveries(RxFrame(last).stream_id)) >= 3
  /\ LET d == Deliveries(RxFrame(last).stream_id)
     IN /\ RxFrame(last).offset < d[Len(d) - 1].offset
        /\ Len(d[Len(d)].data) > 0
        /\ Len(d[Len(d) - 1].data) > 0

(***************************************************************************)
(* SpecPn: an established client keeps reading the Handshake packets the   *)
(* server retransmits and its Short packets, and writes packets.           *)
(***************************************************************************)
\* The next packet number of the peer in a space; the peer sends one
\* packet more than the model's largest packet number.
PnRx(ns) ==
  IF conn[ns].rx.max_pkt_num <= NGTCP2_MAX_PKT_NUM
  THEN conn[ns].rx.max_pkt_num + 1 ELSE -1

PnPkts ==
  {Pkt(NGTCP2_PKT_HANDSHAKE, PnRx("hs_pktns"), 2, <<CryptoFrame>>),
   Pkt(NGTCP2_PKT_SHORT, PnRx("pktns"), 2, <<[type |-> NGTCP2_FRAME_PING]>>)}

InitPn == InitAt(Established)

NextPn ==
  \/ ReadPkt(PnPkts)
  \/ WritePkt({8})
  \/ OpenBidiStream
  \/ WritevStream({8}, {0}, {FALSE}, {1})
  \/ WriteConnectionClose({8}, {"NO_ERROR"})

SpecPn == InitPn /\ [][NextPn]_vars

C5_Step ==
  \A i \in DOMAIN dest' :
    /\ dest'[i].pkt_num <= NGTCP2_MAX_PKT_NUM
    /\ \A n \in sent[pktns_of(dest'[i].type)] : n < dest'[i].pkt_num
    /\ \A j \in 1..(i - 1) :
         pktns_of(dest'[j].type) = pktns_of(dest'[i].type) =>
           dest'[j].pkt_num < dest'[i].pkt_num

\* C5: every packet a call writes carries a packet number greater than
\* that of every packet written before in its space, and none above the
\* largest packet number (2^62 - 1).
C5_PktNumIncreasingAndBounded == [][C5_Step]_vars

(***************************************************************************)
(* SpecPkt: an established client receives the server's Short packets      *)
(* lost, reordered and repeated, with packet numbers encoded in one or two *)
(* bytes, and a late Handshake packet with an acknowledgement, and writes   *)
(* the packets that become due.  The application stops handing packets     *)
(* over once a call has failed.                                            *)
(***************************************************************************)
AckFrame(largest_ack, first_ack_blklen) ==
  [type |-> NGTCP2_FRAME_ACK, largest_ack |-> largest_ack,
   first_ack_blklen |-> first_ack_blklen, num_blks |-> 0]

PktFrames ==
  {[type |-> NGTCP2_FRAME_STREAM, stream_id |-> 1, offset |-> 0, datalen |-> 1,
    fin |-> FALSE],
   AckFrame(0, 0), AckFrame(1, 0)}

PktPkts ==
  {Pkt(NGTCP2_PKT_SHORT, n, l, <<fr>>) :
     n \in 0..MaxRxPktNum, l \in 1..2, fr \in PktFrames}
    \cup
  {Pkt(NGTCP2_PKT_HANDSHAKE, 1, 2, <<AckFrame(0, 0)>>)}

InitPkt == InitAt(Established)

NextPkt ==
  \/ ~Failed /\ ReadPkt(PktPkts)
  \/ ~Failed /\ WritePkt({8})

SpecPkt == InitPkt /\ [][NextPkt]_vars

C6_Step ==
  (/\ last'.op = "read_pkt"
   /\ last'.in.type = NGTCP2_PKT_SHORT
   /\ last'.in.auth
   /\ last'.dup) =>
     /\ conn.state = NGTCP2_CS_POST_HANDSHAKE =>
          conn_recv_pkt(conn, last'.in).rv = "ERR_DISCARD_PKT"
     /\ rv' = "OK"
     /\ conn' = conn

\* C6: a Short packet whose packet number was already processed is
\* discarded (conn_recv_pkt returns discard-packet, the call returns 0):
\* none of its frames is processed and nothing of the connection changes,
\* neither streams, flow control, ack tracker (rx_npkt included) nor the
\* record of received packet numbers.
C6_DuplicateDiscarded == [][C6_Step]_vars

\* The second copy of the packet that carried the byte of stream 1 has been
\* discarded; the byte was handed over once.
C6_Witness ==
  /\ last.op = "read_pkt"
  /\ last.dup
  /\ last.in.type = NGTCP2_PKT_SHORT
  /\ last.in.frames[1].type = NGTCP2_FRAME_STREAM
  /\ rv = "OK"
  /\ Len(conn.user_data) = 1
  /\ conn.pktns.rx.pngap = {last.in.pkt_num}

C7_Step ==
  \A ns \in Spaces :
    conn'[ns].rtb.largest_acked_tx_pkt_num >= conn[ns].rtb.largest_acked_tx_pkt_num

\* C7: in every packet-number space largest_acked_tx_pkt_num never
\* decreases, whatever ACK frames arrive and in whatever order.
C7_LargestAckedMonotone == [][C7_Step]_vars

\* An ACK frame with a largest_ack below the one already recorded, which
\* is that of a packet the client has written, has been processed.
C7_Witness ==
  /\ last.op = "read_pkt"
  /\ ~last.dup
  /\ rv = "OK"
  /\ last.in.type = NGTCP2_PKT_SHORT
  /\ last.in.pkt_num \in conn.pktns.rx.pngap
  /\ last.in.frames[1].type = NGTCP2_FRAME_ACK
  /\ last.in.frames[1].largest_ack < conn.pktns.rtb.largest_acked_tx_pkt_num
  /\ conn.pktns.rtb.largest_acked_tx_pkt_num \in sent.pktns

(***************************************************************************)
(* SpecConn: a client from construction through the handshake to the end   *)
(* of the connection.  The server's packets arrive in order; they carry    *)
(* handshake data, a close of either variant, or a protocol violation.     *)
(* The application may close at any time; after a failed call it reads no  *)
(* further packet and closes with the transport error code the library     *)
(* infers from the error.                                                  *)
(***************************************************************************)
\* The largest packet number of the server in each space.
MaxConnRxPktNum == 1

\* The server's next packet number in a space, or -1 when they are used up.
ConnRx(ns) ==
  IF conn[ns].rx.max_pkt_num < MaxConnRxPktNum THEN conn[ns].rx.max_pkt_num + 1 ELSE -1

CloseFrame(type) == [type |-> type, error_code |-> "NO_ERROR"]

CloseFrames ==
  {CloseFrame(NGTCP2_FRAME_CONNECTION_CLOSE), CloseFrame(NGTCP2_FRAME_CONNECTION_CLOSE_APP)}

MalformedFrame == [type |-> "FRAME_MALFORMED"]

\* A packet whose header has a reserved bit set.
BadRsv(p) == [p EXCEPT !.rsv_ok = FALSE]

ConnHsPkts ==
  UNION {{Pkt(t, ConnRx(pktns_of(t)), 2, <<fr>>) :
            fr \in {CryptoFrame, MalformedFrame} \cup CloseFrames}
           \cup {BadRsv(Pkt(t, ConnRx(pktns_of(t)), 2, <<CryptoFrame>>))} :
         t \in {NGTCP2_PKT_INITIAL, NGTCP2_PKT_HANDSHAKE}}

\* On stream 1: a byte beyond the stream's limit, the end of the stream at
\* offset 0, and a reset with final size 1.
ConnStreamFrames ==
  {[type |-> NGTCP2_FRAME_STREAM, stream_id |-> 1, offset |-> MaxOff, datalen |-> 1,
    fin |-> FALSE],
   [type |-> NGTCP2_FRAME_STREAM, stream_id |-> 1, offset |-> 0, datalen |-> 0,
    fin |-> TRUE],
   [type |-> NGTCP2_FRAME_RESET_STREAM, stream_id |-> 1, final_size |-> 1]}

ConnPkts ==
  {Pkt(NGTCP2_PKT_SHORT, ConnRx("pktns"), 2, <<fr>>) :
     fr \in {[type |-> NGTCP2_FRAME_PING], MalformedFrame}
              \cup CloseFrames \cup ConnStreamFrames}
    \cup
  {BadRsv(Pkt(NGTCP2_PKT_SHORT, ConnRx("pktns"), 2, <<[type |-> NGTCP2_FRAME_PING]>>))}
    \cup
  {Pkt(NGTCP2_PKT_HANDSHAKE, ConnRx("hs_pktns"), 2, <<fr>>) : fr \in CloseFrames}

\* The error code the application closes with.
CloseCode ==
  IF Failed THEN ngtcp2_err_infer_quic_transport_error_code(rv) ELSE "NO_ERROR"

InitConn == InitWith(conn_new(FALSE))

NextConn ==
  \/ ~Failed /\ ClientWriteHandshake({8}, {-1}, {0})
  \/ ~Failed /\ ReadHandshake(ConnHsPkts)
  \/ ~Failed /\ InstallKeys
  \/ ~Failed /\ SetRemoteTransportParams
  \/ ~Failed /\ HandshakeCompleted
  \/ ~Failed /\ ReadPkt(ConnPkts)
  \/ ~Failed /\ WritePkt({8})
  \/ WriteConnectionClose({-1, 8}, {CloseCode})
  \/ WriteApplicationClose({-1, 8}, {"APP_ERROR"})

SpecConn == InitConn /\ [][NextConn]_vars

\* The call hands a packet to the function that reads packets in the state
\* c, of a type the function processes, with the keys of its space at hand
\* and a packet number not seen before.
Processed(c, call) ==
  /\ \/ /\ call.op = "read_handshake"
        /\ c.state = NGTCP2_CS_CLIENT_WAIT_HANDSHAKE
        /\ \/ call.in.type = NGTCP2_PKT_HANDSHAKE
           \/ /\ call.in.type = NGTCP2_PKT_INITIAL
              /\ "INITIAL_KEY_DISCARDED" \notin c.flags
     \/ /\ call.op = "read_pkt"
        /\ c.state = NGTCP2_CS_POST_HANDSHAKE
        /\ call.in.type \in {NGTCP2_PKT_SHORT, NGTCP2_PKT_HANDSHAKE}
  /\ c[pktns_of(call.in.type)].crypto.rx.ckm
  /\ call.in.auth
  /\ ~call.dup

\* A close frame arrives in a packet that may carry it: the transport
\* variant in any packet, the application variant in a Handshake or Short
\* packet.
CloseArrives(c, call) ==
  /\ Processed(c, call)
  /\ call.in.rsv_ok
  /\ call.in.frames[1].type \in {NGTCP2_FRAME_CONNECTION_CLOSE,
                                 NGTCP2_FRAME_CONNECTION_CLOSE_APP}
  /\ call.in.type = NGTCP2_PKT_INITIAL =>
       call.in.frames[1].type = NGTCP2_FRAME_CONNECTION_CLOSE

C8_Step == CloseArrives(conn, last') => conn'.state = NGTCP2_CS_DRAINING

\* C8: a CONNECTION_CLOSE frame of either variant, received in a
\* connection that is neither closing nor draining yet, moves the
\* connection to DRAINING.
C8_CloseFrameDrains == [][C8_Step]_vars

\* The call is one of the two closes of the application.
CloseCall(call) == call.op \in {"write_connection_close", "write_application_close"}

\* The close can be written in the state c: the packet numbers are not
\* used up, the buffer takes the packet, and the connection is in a state
\* the function accepts.
CanClose(c, call) ==
  /\ \A ns \in Spaces : c[ns].tx.last_pkt_num # NGTCP2_MAX_PKT_NUM
  /\ call.in.left >= 0
  /\ IF call.op = "write_connection_close"
     THEN c.state \notin {NGTCP2_CS_CLOSING, NGTCP2_CS_DRAINING}
     ELSE c.state = NGTCP2_CS_POST_HANDSHAKE

C9_Original_Step == CloseCall(last') => conn'.state = NGTCP2_CS_CLOSING

\* C9 as stated: from any state a close of the application moves the
\* connection to CLOSING.
C9_Original == [][C9_Original_Step]_vars

C9_Step ==
  CloseCall(last') =>
    IF CanClose(conn, last')
    THEN /\ rv' = "NWRITE"
         /\ conn'.state = NGTCP2_CS_CLOSING
         /\ Len(dest') = 1
         /\ dest'[1].frames[1].type =
              IF last'.op = "write_connection_close"
              THEN NGTCP2_FRAME_CONNECTION_CLOSE ELSE NGTCP2_FRAME_CONNECTION_CLOSE_APP
    ELSE /\ rv' # "NWRITE"
         /\ dest' = << >>
         /\ conn' = conn

\* C9: write_connection_close from a state other than CLOSING and DRAINING,
\* and write_application_close from POST_HANDSHAKE, write the close packet
\* and move the connection to CLOSING when the packet numbers are not used
\* up and the buffer takes the packet; otherwise the call writes nothing
\* and leaves the connection as it is.
C9_AppCloseCloses == [][C9_Step]_vars

\* The application has closed during the handshake, with a Handshake
\* packet.
C9_Witness ==
  /\ last.op = "write_connection_close"
  /\ rv = "NWRITE"
  /\ conn.state = NGTCP2_CS_CLOSING
  /\ Len(dest) = 1
  /\ dest[1].type = NGTCP2_PKT_HANDSHAKE
  /\ dest[1].frames[1].type = NGTCP2_FRAME_CONNECTION_CLOSE

\* The protocol violation the packet of the call commits in the state c,
\* or "none".  A STREAM frame is tested against the flow-control limits
\* first, a RESET_STREAM against the final size first.
Violation(c, call) ==
  LET p == call.in
      fr == p.frames[1]
  IN IF ~p.rsv_ok THEN "reserved"
     ELSE IF fr.type = "FRAME_MALFORMED" THEN "malformed"
     ELSE IF \/ p.type # NGTCP2_PKT_SHORT
             \/ fr.type \notin {NGTCP2_FRAME_STREAM, NGTCP2_FRAME_RESET_STREAM}
     THEN "none"
     ELSE IF ~RxStreamOpen(c, fr) THEN "none"
     ELSE IF fr.type = NGTCP2_FRAME_STREAM
     THEN IF RxExceeds(c, fr) THEN "flow"
          ELSE IF RxContradictsFinalSize(c, fr) THEN "final" ELSE "none"
     ELSE IF RxContradictsFinalSize(c, fr) THEN "final"
          ELSE IF RxExceeds(c, fr) THEN "flow" ELSE "none"

\* The error a read call returns for a violation.
ViolationErr(v) ==
  CASE v = "reserved" -> "ERR_PROTO"
    [] v = "malformed" -> "ERR_FRAME_ENCODING"
    [] v = "flow" -> "ERR_FLOW_CONTROL"
    [] v = "final" -> "ERR_FINAL_SIZE"

\* The transport error code that corresponds to the error of a violation.
ViolationCode(err) ==
  CASE err = "ERR_PROTO" -> "PROTOCOL_VIOLATION"
    [] err = "ERR_FRAME_ENCODING" -> "FRAME_ENCODING_ERROR"
    [] err = "ERR_FLOW_CONTROL" -> "FLOW_CONTROL_ERROR"
    [] err = "ERR_FINAL_SIZE" -> "FINAL_SIZE_ERROR"

ViolationErrs == {"ERR_PROTO", "ERR_FRAME_ENCODING", "ERR_FLOW_CONTROL", "ERR_FINAL_SIZE"}

C10_Original_Step ==
  (/\ Processed(conn, last')
   /\ last'.in.type # NGTCP2_PKT_INITIAL
   /\ Violation(conn, last') # "none") =>
     /\ ngtcp2_err_is_fatal(rv')
     /\ conn'.state = NGTCP2_CS_CLOSING

\* C10 as stated: a protocol violation in a received packet is surfaced as
\* a fatal error and the connection is CLOSING after the call.
C10_Original == [][C10_Original_Step]_vars

C10_Step ==
  /\ (Processed(conn, last') /\ Violation(conn, last') # "none") =>
       /\ rv' = IF last'.in.type = NGTCP2_PKT_INITIAL THEN "OK"
                ELSE ViolationErr(Violation(conn, last'))
       /\ ~ngtcp2_err_is_fatal(rv')
       /\ conn'.state = conn.state
  /\ (/\ last.op \in {"read_pkt", "read_handshake"}
      /\ rv \in ViolationErrs
      /\ last'.op = "write_connection_close"
      /\ rv' = "NWRITE") =>
       /\ conn'.state = NGTCP2_CS_CLOSING
       /\ dest'[1].frames[1] =
            [type |-> NGTCP2_FRAME_CONNECTION_CLOSE, error_code |-> ViolationCode(rv)]

\* C10: a protocol violation in a Handshake or Short packet makes the read
\* call return the matching error (PROTO, FRAME_ENCODING, FLOW_CONTROL,
\* FINAL_SIZE), which is not fatal, and leaves the state as it is; in an
\* Initial packet during the handshake it is ignored.  The connection is
\* CLOSING once the application has then written CONNECTION_CLOSE with the
\* code inferred from the error, which is the transport error code that
\* corresponds to the violation.
C10_ViolationClosesViaApp == [][C10_Step]_vars

\* A final-size violation has been answered with CONNECTION_CLOSE carrying
\* FINAL_SIZE_ERROR.
C10_Witness ==
  /\ last.op = "write_connection_close"
  /\ conn.state = NGTCP2_CS_CLOSING
  /\ Len(dest) = 1
  /\ dest[1].frames[1].error_code = "FINAL_SIZE_ERROR"

(***************************************************************************)
(* Fatal errors.  A client goes through the handshake and exchanges        *)
(* packets; the TLS stack behind the recv_crypto_data callback may fail on *)
(* any CRYPTO data it is given, which the library reports as               *)
(* NGTCP2_ERR_CALLBACK_FAILURE.  The application stops reading once a call *)
(* has returned a fatal error, but goes on calling the writers.            *)
(***************************************************************************)
MaxErrRxPktNum == 0

ErrRx(ns) ==
  IF conn[ns].rx.max_pkt_num < MaxErrRxPktNum THEN conn[ns].rx.max_pkt_num + 1 ELSE -1

ErrCryptoFrames == {CryptoFrameTls(tls) : tls \in {"OK", "ERR_CALLBACK_FAILURE"}}

ErrHsPkts ==
  {Pkt(t, ErrRx(pktns_of(t)), 2, <<fr>>) :
     t \in {NGTCP2_PKT_INITIAL, NGTCP2_PKT_HANDSHAKE}, fr \in ErrCryptoFrames}
    \cup {VersionNegotiationPkt(TRUE, TRUE, cb, FALSE) :
            cb \in {"OK", "ERR_CALLBACK_FAILURE"}}

ErrPkts ==
  {Pkt(NGTCP2_PKT_SHORT, ErrRx("pktns"), 2, <<fr>>) :
     fr \in ErrCryptoFrames
              \cup {[type |-> NGTCP2_FRAME_PING], CloseFrame(NGTCP2_FRAME_CONNECTION_CLOSE)}}

ErrCloseCode == IF fatal THEN "INTERNAL_ERROR" ELSE "NO_ERROR"

InitErr == InitWith(conn_new(FALSE))

NextErr ==
  \/ ClientWriteHandshake({8}, {-1}, {0})
  \/ ~fatal /\ ReadHandshake(ErrHsPkts)
  \/ ~fatal /\ InstallKeys
  \/ ~fatal /\ SetRemoteTransportParams
  \/ ~fatal /\ HandshakeCompleted
  \/ ~fatal /\ ReadPkt(ErrPkts)
  \/ WritePkt({8})
  \/ OpenBidiStream
  \/ WritevStream({8}, {0}, {FALSE}, {1})
  \/ WriteConnectionClose({8}, {ErrCloseCode})

SpecErr == InitErr /\ [][NextErr]_vars

\* The call is one of the packet writers of the application.
WriteCall(call) ==
  call.op \in {"write_pkt", "writev_stream", "write_handshake", "client_write_handshake"}

Closed(c) == c.state \in {NGTCP2_CS_CLOSING, NGTCP2_CS_DRAINING}

C11_Original_Step ==
  (fatal /\ WriteCall(last')) => rv' \in {"ERR_CLOSING", "ERR_DRAINING"}

C11_Step ==
  /\ ngtcp2_err_is_fatal(rv') =>
       \/ conn'.state = conn.state
       \/ /\ last'.op = "read_handshake"
          /\ last'.in.type = NGTCP2_PKT_VERSION_NEGOTIATION
          /\ conn'.state = NGTCP2_CS_DRAINING
  /\ WriteCall(last') =>
       /\ rv' \in {"ERR_CLOSING", "ERR_DRAINING"} => Closed(conn)
       /\ Closed(conn) =>
            rv' = IF \E ns \in Spaces : conn[ns].tx.last_pkt_num = NGTCP2_MAX_PKT_NUM
                  THEN rv'
                  ELSE IF conn.state = NGTCP2_CS_CLOSING THEN "ERR_CLOSING"
                  ELSE "ERR_DRAINING"
  /\ (fatal /\ Closed(conn') /\ ~Closed(conn)) =>
       (last'.op = "write_connection_close" /\ rv' = "NWRITE")

MaxDisRxPktNum == 2

DisPkts ==
  {[Pkt(NGTCP2_PKT_SHORT, n, 2, frames)
      EXCEPT !.auth = auth, !.key_phase = key_phase, !.sr = sr] :
     n \in 0..MaxDisRxPktNum, frames \in {<< >>, <<[type |-> NGTCP2_FRAME_PING]>>},
     auth \in BOOLEAN, key_phase \in BOOLEAN, sr \in {FALSE}}
    \cup {[Pkt(NGTCP2_PKT_SHORT, n, 2, << >>) EXCEPT !.auth = FALSE, !.sr = TRUE] :
            n \in 0..MaxDisRxPktNum}
    \cup {Pkt(NGTCP2_PKT_0RTT, 0, 2, <<[type |-> NGTCP2_FRAME_PING]>>),
          Pkt(NGTCP2_PKT_HANDSHAKE, 0, 2, <<CryptoFrame>>)}

InitDis == InitAt(Established)

NextDis ==
  \/ ReadPkt(DisPkts)
  \/ WritePkt({8})

SpecDis == InitDis /\ [][NextDis]_vars

\* The packet of the call is one conn_recv_pkt discards in the state c: a
\* 0-RTT packet at a client, a packet number seen before, a payload that
\* does not decrypt, or no frame at all.
DiscardCase(c, call) ==
  LET p == call.in
      ns == pktns_of(p.type)
      pkt_num == hd_pkt_num(c, ns, p)
  IN /\ call.op = "read_pkt"
     /\ c.state = NGTCP2_CS_POST_HANDSHAKE
     /\ p.type # NGTCP2_PKT_INITIAL
     /\ \/ p.type = NGTCP2_PKT_0RTT
        \/ call.dup
        \/ ~p.auth
        \/ pkt_num # p.pkt_num
        \/ conn_recv_pkt_ckm(c, p, pkt_num) = "none"
        \/ p.rsv_ok /\ p.frames = << >>

\* The parts of the connection C12 names.
DisState(c) ==
  [state |-> c.state, in_pktns |-> c.in_pktns, hs_pktns |-> c.hs_pktns,
   pktns |-> c.pktns, early |-> c.early, crypto |-> c.crypto, strms |-> c.strms]

C12_Original_Step ==
  DiscardCase(conn, last') => (rv' = "OK" /\ DisState(conn') = DisState(conn))

KeyProbe(c, p) ==
  LET pkt_num == hd_pkt_num(c, "pktns", p)
  IN /\ p.type = NGTCP2_PKT_SHORT
     /\ p.key_phase # c.pktns.crypto.rx.key_phase
     /\ c.pktns.crypto.rx.pkt_num <= pkt_num
     /\ c.pktns.rx.max_pkt_num < pkt_num

C12_Step ==
  DiscardCase(conn, last') =>
    /\ rv' = IF last'.in.sr THEN "ERR_DRAINING" ELSE "OK"
    /\ conn' = [conn EXCEPT
                  !.state = IF last'.in.sr THEN NGTCP2_CS_DRAINING ELSE @,
                  !.crypto.key_update.new_rx_ckm = @ \/ KeyProbe(conn, last'.in),
                  !.crypto.key_update.new_tx_ckm = @ \/ KeyProbe(conn, last'.in)]

RetryPkts ==
  {RetryPkt(odcid_ok, tokenlen, cb, malformed) :
     odcid_ok \in BOOLEAN, tokenlen \in {0, 1},
     cb \in {"OK", "ERR_CALLBACK_FAILURE"}, malformed \in BOOLEAN}

RetryHsPkts ==
  RetryPkts \cup {Pkt(NGTCP2_PKT_INITIAL, FirstRx("in_pktns"), 1, <<CryptoFrame>>)}

InitRetry == InitWith(conn_new(FALSE))

NextRetry ==
  \/ SetEarlyRemoteTransportParams
  \/ InstallEarlyKeys
  \/ OpenBidiStream
  \/ ClientWriteHandshake({8}, {-1}, {0})
  \/ ClientWriteHandshake({4, 8}, {0}, {3})
  \/ ReadHandshake(RetryHsPkts)

SpecRetry == InitRetry /\ [][NextRetry]_vars

\* The call made in this step hands a Retry packet to a client that waits
\* for the server's handshake.
RetryCase(c, call) ==
  /\ call.op = "read_handshake"
  /\ call.in.type = NGTCP2_PKT_RETRY
  /\ c.state = NGTCP2_CS_CLIENT_WAIT_HANDSHAKE

\* The client acts on the Retry packet p: it is the first one, it arrives
\* before any Initial packet of the server, its payload can be decoded, it
\* names the DCID of the client's first packet, it carries a token, and the
\* recv_retry callback succeeds.
RetryAccepted(c, p) ==
  /\ c.flags \cap {"RECV_RETRY", "CONN_ID_NEGOTIATED"} = {}
  /\ ~p.malformed /\ p.odcid_ok /\ p.tokenlen > 0 /\ p.cb = "OK"

\* The frames of a given kind the retransmit buffer rtb holds.
RtbFrames(rtb, types) ==
  {fr \in UNION {{e.frc[i] : i \in DOMAIN e.frc} : e \in rtb.ents} : fr.type \in types}

NumRtbCrypto(rtb) ==
  LET n[s \in SUBSET rtb.ents] ==
        IF s = {} THEN 0
        ELSE LET e == CHOOSE e \in s : TRUE
             IN Len(SelectSeq(e.frc, LAMBDA fr : fr.type = NGTCP2_FRAME_CRYPTO))
                  + n[s \ {e}]
  IN n[rtb.ents]

\* The flush: the connection c2 is back in NGTCP2_CS_CLIENT_INITIAL, the
\* Initial and 0-RTT retransmit buffers are empty, and every frame they held
\* in c waits to be sent again.
RetryFlushed(c, c2) ==
  /\ c2.state = NGTCP2_CS_CLIENT_INITIAL
  /\ c2.in_pktns.rtb.ents = {}
  /\ c2.pktns.rtb.ents = {}
  /\ c2.in_pktns.crypto.tx.frq
       = c.in_pktns.crypto.tx.frq + NumRtbCrypto(c.in_pktns.rtb)
  /\ \A fr \in RtbFrames(c.pktns.rtb, {NGTCP2_FRAME_STREAM}) :
       /\ \E i \in DOMAIN c2.strms[fr.stream_id].tx.streamfrq :
            c2.strms[fr.stream_id].tx.streamfrq[i] = fr
       /\ \E i \in DOMAIN c2.tx.strmq : c2.tx.strmq[i] = fr.stream_id

\* C13 as stated: a client in CLIENT_WAIT_HANDSHAKE that receives a Retry
\* packet returns to CLIENT_INITIAL with the Initial and 0-RTT retransmit
\* buffers flushed and their frames rescheduled.
C13_Original_Step ==
  RetryCase(conn, last') => RetryFlushed(conn, conn')

C13_Original == [][C13_Original_Step]_vars

C13_Step ==
  RetryCase(conn, last') =>
    IF RetryAccepted(conn, last'.in)
    THEN rv' = "OK" /\ RetryFlushed(conn, conn')
                    /\ "RECV_RETRY" \in conn'.flags
                    /\ conn'.token.len = last'.in.tokenlen
    ELSE /\ conn'.state = conn.state
         /\ conn'.in_pktns = conn.in_pktns
         /\ conn'.pktns = conn.pktns
         /\ conn'.strms = conn.strms

\* C13: a client in CLIENT_WAIT_HANDSHAKE returns to CLIENT_INITIAL on the
\* first Retry packet it can act on (no Retry accepted and no Initial of the
\* server processed before, payload decodable, ODCID matching, token not
\* empty, recv_retry succeeding): then the Initial and 0-RTT retransmit
\* buffers become empty, the CRYPTO frames they held are back in the
\* Initial crypto queue and their STREAM frames wait in the frame queue of
\* their stream, which is queued for sending.  Any other Retry packet
\* leaves the state, the packet-number spaces and the streams as they were.
C13_RetryFlushesInFlight == [][C13_Step]_vars

\* A Retry has just flushed an Initial packet and a 0-RTT packet that held
\* stream data.
C13_Witness ==
  /\ last.op = "read_handshake"
  /\ last.in.type = NGTCP2_PKT_RETRY
  /\ conn.state = NGTCP2_CS_CLIENT_INITIAL
  /\ conn.in_pktns.tx.last_pkt_num >= 0
  /\ conn.in_pktns.crypto.tx.frq > 0
  /\ \E sid \in DOMAIN conn.strms : conn.strms[sid].tx.streamfrq # << >>

(***************************************************************************)
(* The handshake of either role.  A server or a client reads Initial and   *)
(* Handshake packets, Version Negotiation packets and a Retry packet, the  *)
(* TLS stack submits handshake data, installs keys, hands over the peer's  *)
(* transport parameters and reports completion in any order the library    *)
(* permits, and the application writes.                                    *)
(***************************************************************************)
MaxHsRxPktNum == 0
MaxHsTxPktNum == 0

HsRx(ns) ==
  IF conn[ns].rx.max_pkt_num < MaxHsRxPktNum THEN conn[ns].rx.max_pkt_num + 1 ELSE -1

VnPkts ==
  {VersionNegotiationPkt(TRUE, TRUE, cb, malformed) :
     cb \in {"OK", "ERR_CALLBACK_FAILURE"}, malformed \in BOOLEAN}
    \cup {VersionNegotiationPkt(FALSE, TRUE, "OK", FALSE),
          VersionNegotiationPkt(TRUE, FALSE, "OK", FALSE)}

HsHsPkts ==
  {Pkt(t, HsRx(pktns_of(t)), 1, <<CryptoFrame>>) :
     t \in {NGTCP2_PKT_INITIAL, NGTCP2_PKT_HANDSHAKE}}
    \cup {Pkt(NGTCP2_PKT_INITIAL, HsRx("in_pktns"), 1, <<[type |-> NGTCP2_FRAME_PING]>>)}
    \cup VnPkts
    \cup {RetryPkt(TRUE, 1, "OK", FALSE)}

HsPkts ==
  {Pkt(NGTCP2_PKT_SHORT, HsRx("pktns"), 1, <<[type |-> NGTCP2_FRAME_PING]>>),
   VersionNegotiationPkt(TRUE, TRUE, "OK", FALSE)}

\* The TLS stack hands handshake data of a level to the library once the
\* sending key of the level exists: a server answers the handshake data of
\* the client's Initial packet (the client's first Initial data comes from
\* the client_initial callback).
SubmitCryptoData ==
  \E level \in {"in_pktns", "hs_pktns"} :
    /\ conn[level].crypto.tx.ckm
    /\ level = "in_pktns" => conn.server /\ conn.in_pktns.crypto.strm.rx_offset > 0
    /\ conn[level].crypto.tx.frq = 0
    /\ conn[level].tx.last_pkt_num < MaxHsTxPktNum
    /\ conn.state \notin {NGTCP2_CS_CLOSING, NGTCP2_CS_DRAINING}
    /\ \E r \in {Ret(ngtcp2_conn_submit_crypto_data(conn, level), "OK")} :
         DoRet(r, Call("submit_crypto_data", level))

InitHs == \E server \in BOOLEAN : InitWith(conn_new(server))

NextHs ==
  \/ ~fatal /\ ClientWriteHandshake({8}, {-1}, {0})
  \/ ~fatal /\ conn.server /\ WriteHandshake({-1, 8})
  \/ ~fatal /\ ReadHandshake(HsHsPkts)
  \/ ~fatal /\ SubmitCryptoData
  \/ ~fatal /\ InstallKeys
  \/ ~fatal /\ SetRemoteTransportParams
  \/ ~fatal /\ HandshakeCompleted
  \/ ~fatal /\ ReadPkt(HsPkts)

SpecHs == InitHs /\ [][NextHs]_vars

HsDone == {"HANDSHAKE_COMPLETED", "TRANSPORT_PARAM_RECVED"}

HsCall(call) == call.op \in {"read_handshake", "write_handshake"}

C14_Step ==
  conn.server =>
    /\ (conn.state # NGTCP2_CS_POST_HANDSHAKE /\ conn'.state = NGTCP2_CS_POST_HANDSHAKE) =>
         /\ conn.state = NGTCP2_CS_SERVER_WAIT_HANDSHAKE
         /\ HsCall(last')
         /\ HsDone \subseteq conn'.flags
    /\ (conn.state = NGTCP2_CS_SERVER_WAIT_HANDSHAKE /\ HsCall(last')) =>
         /\ (HsDone \subseteq conn.flags /\ rv' \in {"OK", "NWRITE"}) =>
              conn'.state = NGTCP2_CS_POST_HANDSHAKE
         /\ ("HANDSHAKE_COMPLETED" \in conn.flags
               /\ "TRANSPORT_PARAM_RECVED" \notin conn.flags
               /\ rv' \notin {"ERR_PKT_NUM_EXHAUSTED", "ERR_DRAINING"}
               /\ ~ngtcp2_err_is_fatal(rv')
               /\ (last'.op = "read_handshake" => rv' \notin {"ERR_PROTO", "ERR_CRYPTO"})) =>
              /\ rv' = "ERR_REQUIRED_TRANSPORT_PARAM"
              /\ conn'.state = NGTCP2_CS_SERVER_WAIT_HANDSHAKE

\* C14: a server in SERVER_WAIT_HANDSHAKE moves to POST_HANDSHAKE with the
\* first read_handshake or write_handshake call that succeeds once TLS has
\* reported the completion of the handshake and the peer's transport
\* parameters have been received, and a server never enters POST_HANDSHAKE
\* while one of the two is missing: with the completion alone such a call
\* returns NGTCP2_ERR_REQUIRED_TRANSPORT_PARAM and the state stays.
C14_ServerPostHandshake == [][C14_Step]_vars

\* The server has just entered POST_HANDSHAKE in a read_handshake call.
C14_Witness ==
  /\ conn.server
  /\ conn.state = NGTCP2_CS_POST_HANDSHAKE
  /\ last.op = "read_handshake"
  /\ HsDone \subseteq conn.flags

\* The call hands the client's Initial packet with handshake data to a
\* server in SERVER_INITIAL, which accepts it.
ClientInitialCase(c, call) ==
  /\ c.server
  /\ c.state = NGTCP2_CS_SERVER_INITIAL
  /\ call.op = "read_handshake"
  /\ call.in.type = NGTCP2_PKT_INITIAL
  /\ \E i \in DOMAIN call.in.frames : call.in.frames[i].type = NGTCP2_FRAME_CRYPTO

\* C15 as stated: reading the client's Initial packet moves a server from
\* SERVER_INITIAL to SERVER_WAIT_HANDSHAKE.
C15_Original_Step ==
  (ClientInitialCase(conn, last') /\ rv' = "OK") =>
    conn'.state = NGTCP2_CS_SERVER_WAIT_HANDSHAKE

C15_Original == [][C15_Original_Step]_vars

C15_Step ==
  (conn.server /\ conn.state = NGTCP2_CS_SERVER_INITIAL) =>
    /\ last'.op = "read_handshake" => conn'.state = NGTCP2_CS_SERVER_INITIAL
    /\ conn'.state = NGTCP2_CS_SERVER_WAIT_HANDSHAKE =>
         /\ last'.op = "write_handshake"
         /\ rv' = "NWRITE"
         /\ conn.in_pktns.crypto.strm.rx_offset > 0
    /\ (last'.op = "write_handshake" /\ rv' = "NWRITE") =>
         conn'.state = NGTCP2_CS_SERVER_WAIT_HANDSHAKE

\* C15: a server stays in SERVER_INITIAL while it reads the client's
\* Initial packet; it moves to SERVER_WAIT_HANDSHAKE in the write_handshake
\* call that writes its first handshake packet, which happens only after the
\* handshake data of the client's Initial packet has been received.
C15_ServerWaitHandshake == [][C15_Step]_vars

\* The server has read the client's Initial packet and is in SERVER_INITIAL.
C15_Witness ==
  /\ conn.server
  /\ conn.state = NGTCP2_CS_SERVER_INITIAL
  /\ last.op = "read_handshake"
  /\ last.in.type = NGTCP2_PKT_INITIAL
  /\ rv = "OK"
  /\ conn.in_pktns.crypto.strm.rx_offset > 0

\* The call hands a Version Negotiation packet to the library.
VnCase(call) ==
  /\ call.op \in {"read_handshake", "read_pkt"}
  /\ call.in.type = NGTCP2_PKT_VERSION_NEGOTIATION

\* The client acts on the Version Negotiation packet p: it waits for the
\* server's first packet, and p is well formed and carries the connection
\* ids of the client's first packet.
VnAccepted(c, call) ==
  /\ call.op = "read_handshake"
  /\ ~c.server
  /\ c.state = NGTCP2_CS_CLIENT_WAIT_HANDSHAKE
  /\ "CONN_ID_NEGOTIATED" \notin c.flags
  /\ call.in.dcid_ok /\ call.in.scid_ok /\ ~call.in.malformed

\* C16 as stated: from any state a Version Negotiation packet moves the
\* connection to DRAINING.
C16_Original_Step == VnCase(last') => conn'.state = NGTCP2_CS_DRAINING

C16_Original == [][C16_Original_Step]_vars

C16_Step ==
  VnCase(last') =>
    IF VnAccepted(conn, last')
    THEN /\ conn'.state = NGTCP2_CS_DRAINING
         /\ rv' = IF last'.in.cb = "OK" THEN "ERR_RECV_VERSION_NEGOTIATION"
                  ELSE "ERR_CALLBACK_FAILURE"
    ELSE /\ conn'.state = NGTCP2_CS_DRAINING => conn.state = NGTCP2_CS_DRAINING
         /\ rv' \notin {"ERR_RECV_VERSION_NEGOTIATION", "ERR_CALLBACK_FAILURE"}

\* C16: a Version Negotiation packet moves the connection to DRAINING only
\* at a client in CLIENT_WAIT_HANDSHAKE that has not yet processed an Initial
\* packet of the server, and only if the packet is well formed and carries
\* the connection ids of the client's first packet; read_handshake then
\* returns NGTCP2_ERR_RECV_VERSION_NEGOTIATION (or the failure of the
\* recv_version_negotiation callback).  In every other state, and at a
\* server, the packet is dropped: it does not move the connection to
\* DRAINING and its callback is not called.
C16_VersionNegotiation == [][C16_Step]_vars

\* A client has just been moved to DRAINING by a Version Negotiation packet.
C16_Witness ==
  /\ last.op = "read_handshake"
  /\ last.in.type = NGTCP2_PKT_VERSION_NEGOTIATION
  /\ conn.state = NGTCP2_CS_DRAINING
  /\ rv = "ERR_RECV_VERSION_NEGOTIATION"

(***************************************************************************)
(* SpecCid: a client with a one-byte source connection ID after the        *)
(* handshake.  It writes packets, for which the library asks the           *)
(* get_new_connection_id callback for connection IDs, and the server       *)
(* sends packets to the connection IDs it has learnt and to others.        *)
(***************************************************************************)
\* The connection IDs of the client's length are <<1>> .. <<MaxCid>>.
MaxCid == 4

\* The server's Short packets carry the packet numbers up to
\* MaxCidRxPktNum, in order.
MaxCidRxPktNum == 1

CidRx ==
  IF conn.pktns.rx.max_pkt_num < MaxCidRxPktNum
  THEN conn.pktns.rx.max_pkt_num + 1 ELSE -1

CidValues == {<<b>> : b \in 1..MaxCid}

CidOscid == <<1>>

\* Established with CidOscid as the client's source connection ID: the
\* handshake has marked it used (conn_verify_dcid on the server's
\* Handshake packet).
CidEstablished ==
  [Established EXCEPT
     !.oscid = CidOscid,
     !.scid.set = {[s EXCEPT !.cid = CidOscid] : s \in @},
     !.scid.used = {CidOscid : u \in @}]

\* What the get_new_connection_id callback may answer: a connection ID of
\* the requested length, one of another length, or a failure.
CidAnswers ==
  {[rv |-> "OK", cid |-> cid] : cid \in CidValues \cup {<<1, 1>>}}
    \cup {[rv |-> "ERR_CALLBACK_FAILURE", cid |-> << >>]}

CidPkts ==
  {[Pkt(NGTCP2_PKT_SHORT, CidRx, 1, <<[type |-> NGTCP2_FRAME_PING]>>)
      EXCEPT !.dcid = dcid] : dcid \in CidValues}

\* ngtcp2_conn_write_pkt with an application whose callback answers cids to
\* the calls it gets, one answer for each connection ID the pool lacks;
\* asked is the number of calls it got.
WritePktCid(lefts) ==
  \E left \in lefts,
     cids \in [1..conn_required_num_new_connection_id(conn) -> CidAnswers] :
    \E r \in {ngtcp2_conn_write_pkt(
                [conn EXCEPT !.callbacks.get_new_connection_id = cids], left)} :
      DoWrite([r EXCEPT !.conn.callbacks.get_new_connection_id = << >>],
              Call("write_pkt",
                   [left |-> left, cids |-> cids,
                    asked |-> Len(cids)
                                - Len(r.conn.callbacks.get_new_connection_id)]))

InitCid == InitAt(CidEstablished)

NextCid ==
  \/ ~fatal /\ WritePktCid({-1, 8})
  \/ ~fatal /\ ReadPkt(CidPkts)

SpecCid == InitCid /\ [][NextCid]_vars

ScidCids(c) == {s.cid : s \in c.scid.set}

\* The callback's i-th answer in the call is a connection ID that is in
\* the SCID set c had before the call or that the call has inserted for
\* an earlier answer.
CidCollides(c, call, i) ==
  /\ call.op = "write_pkt"
  /\ i \in 1..call.in.asked
  /\ call.in.cids[i].rv = "OK"
  /\ call.in.cids[i].cid \in ScidCids(c) \cup {call.in.cids[j].cid : j \in 1..(i - 1)}

\* The SCID entries and the NEW_CONNECTION_ID frames of the first n answers
\* of the call.
CidEntries(c, call, n) ==
  {ngtcp2_scid_init(c.scid.last_seq + j, call.in.cids[j].cid) : j \in 1..n}

CidFrames(c, call, n) ==
  [k \in 1..n |-> [type |-> NGTCP2_FRAME_NEW_CONNECTION_ID,
                   seq |-> c.scid.last_seq + (n + 1 - k),
                   cid |-> call.in.cids[n + 1 - k].cid]]

\* C17 as stated: the colliding connection ID gets no entry and no frame,
\* and the callback is asked again.
C17_Original_Step ==
  \A i \in 1..NGTCP2_MIN_SCID_POOL_SIZE :
    CidCollides(conn, last', i) =>
      /\ conn'.scid.set = conn.scid.set \cup CidEntries(conn, last', i - 1)
      /\ conn'.pktns.tx.frq = CidFrames(conn, last', i - 1) \o conn.pktns.tx.frq
      /\ last'.in.asked > i

C17_Original == [][C17_Original_Step]_vars

C17_Step ==
  \A i \in 1..NGTCP2_MIN_SCID_POOL_SIZE :
    CidCollides(conn, last', i) =>
      /\ conn'.scid.set = conn.scid.set \cup CidEntries(conn, last', i - 1)
      /\ conn'.scid.last_seq = conn.scid.last_seq + (i - 1)
      /\ conn'.pktns.tx.frq = CidFrames(conn, last', i - 1) \o conn.pktns.tx.frq
      /\ last'.in.asked = i
      /\ rv' = "ERR_CALLBACK_FAILURE"
      /\ ngtcp2_err_is_fatal(rv')
      /\ dest' = << >>

\* C17: when the get_new_connection_id callback returns a connection ID
\* that is already in the connection's SCID set, the ID gets no new entry
\* and no NEW_CONNECTION_ID frame, the callback is not asked again, and the
\* write call fails with the fatal NGTCP2_ERR_CALLBACK_FAILURE without
\* writing a packet; the IDs the same call accepted before keep their
\* entries and their queued frames.
C17_CollidingCidFails == [][C17_Step]_vars

\* The callback's second answer has collided with a connection ID that
\* was in the set before the call, after the first answer was accepted.
C17_Witness ==
  /\ last.op = "write_pkt"
  /\ last.in.asked = 2
  /\ rv = "ERR_CALLBACK_FAILURE"
  /\ last.in.cids[2].rv = "OK"
  /\ last.in.cids[2].cid # last.in.cids[1].cid
  /\ Len(last.in.cids[2].cid) = Len(conn.oscid)
  /\ last.in.cids[1].cid \in ScidCids(conn)
  /\ Len(conn.pktns.tx.frq) >= 1

(***************************************************************************)
(* SpecHold: an established client with stream 0 open and a limit of       *)
(* MaxOff - 1 bytes on the stream and on the connection.  The application  *)
(* writes stream data, the server raises the limits to MaxOff, and the     *)
(* application lets the library write packets.  The application counts     *)
(* the bytes it has handed to writev_stream that the call did not accept   *)
(* (held); it hands new data over only while there are none, and it may    *)
(* hand the bytes not accepted over again.                                 *)
(***************************************************************************)
HoldConn == ngtcp2_conn_open_bidi_stream(Established).conn

HoldHeld == IF "held" \in DOMAIN last THEN last.held ELSE 0

\* What a stream write leaves not accepted of datalen more bytes.
HoldAfter(r, held, datalen) ==
  held + (IF r.pdatalen >= 0 THEN datalen - r.pdatalen ELSE 0)

HoldWritev(lens) ==
  /\ HoldHeld = 0
  /\ \E datalen \in lens :
       \E r \in {ngtcp2_conn_writev_stream(conn, 8, 0, FALSE, datalen)} :
         DoWrite(r, Call("writev_stream",
                         [left |-> 8, stream_id |-> 0, datalen |-> datalen])
                      @@ [held |-> HoldAfter(r, 0, datalen)])

HoldResubmit ==
  /\ HoldHeld > 0
  /\ \E r \in {ngtcp2_conn_writev_stream(conn, 8, 0, FALSE, HoldHeld)} :
       DoWrite(r, Call("writev_stream",
                       [left |-> 8, stream_id |-> 0, datalen |-> HoldHeld])
                    @@ [held |-> HoldAfter(r, 0, HoldHeld)])

HoldWritePkt ==
  \E r \in {ngtcp2_conn_write_pkt(conn, 8)} :
    DoWrite(r, Call("write_pkt", [left |-> 8]) @@ [held |-> HoldHeld])

HoldReadPkt ==
  \E p \in FcPkts :
    /\ p.pkt_num >= 0
    /\ \E r \in {ngtcp2_conn_read_pkt(conn, p)} :
         DoRet(r, RecvCall("read_pkt", p) @@ [held |-> HoldHeld])

InitHold == InitAt(HoldConn)

NextHold ==
  \/ ~fatal /\ HoldWritev({1, MaxOff})
  \/ ~fatal /\ HoldResubmit
  \/ ~fatal /\ HoldWritePkt
  \/ ~fatal /\ HoldReadPkt

SpecHold == InitHold /\ [][NextHold]_vars

\* The bytes the peer's limits let stream 0 send.
HoldCredit(c) ==
  ngtcp2_min(c.strms[0].tx.max_offset - c.strms[0].tx.offset,
             c.tx.max_offset - c.tx.offset)

\* The call can write a Short packet.
HoldCanWrite(c) ==
  /\ c.state = NGTCP2_CS_POST_HANDSHAKE
  /\ ~conn_check_pkt_num_exhausted(c)

\* The packets pkts carry n bytes of stream 0 from offset on.
HoldCarries(pkts, offset, n) ==
  \E i \in DOMAIN pkts : \E k \in DOMAIN pkts[i].frames :
    /\ pkts[i].frames[k].type = NGTCP2_FRAME_STREAM
    /\ pkts[i].frames[k].stream_id = 0
    /\ pkts[i].frames[k].offset = offset
    /\ pkts[i].frames[k].datalen = n

HoldNoStream(pkts) ==
  \A i \in DOMAIN pkts : \A k \in DOMAIN pkts[i].frames :
    pkts[i].frames[k].type # NGTCP2_FRAME_STREAM

\* The call has not spent its buffer on packets of the handshake.
HoldShortOnly(pkts) == \A i \in DOMAIN pkts : pkts[i].type = NGTCP2_PKT_SHORT

\* C18 as stated: once the limits leave room, a later write_pkt call sends
\* the bytes an earlier stream write did not accept.
C18_Original_Step ==
  (/\ last'.op = "write_pkt"
   /\ HoldHeld > 0
   /\ HoldCredit(conn) > 0
   /\ HoldCanWrite(conn)
   /\ HoldShortOnly(dest'))
    => HoldCarries(dest', conn.strms[0].tx.offset,
                   ngtcp2_min(HoldHeld, HoldCredit(conn)))

C18_Original == [][C18_Original_Step]_vars

C18_Step ==
  /\ (/\ last'.op = "writev_stream"
      /\ HoldCredit(conn) > 0
      /\ HoldCanWrite(conn)
      /\ HoldShortOnly(dest'))
       => /\ last'.pdatalen = ngtcp2_min(last'.in.datalen, HoldCredit(conn))
          /\ HoldCarries(dest', conn.strms[0].tx.offset, last'.pdatalen)
          /\ conn'.strms[0].tx.offset = conn.strms[0].tx.offset + last'.pdatalen
          /\ conn' = ngtcp2_conn_writev_stream(conn, 8, 0, FALSE,
                                               last'.pdatalen).conn
  /\ last'.op = "write_pkt"
       => /\ HoldNoStream(dest')
          /\ conn'.strms[0].tx.offset = conn.strms[0].tx.offset
          /\ conn'.tx.offset = conn.tx.offset

\* C18: a stream write of more bytes than the peer's limits allow that
\* gets to write a Short packet sends the bytes within the limits, reports
\* their number in pdatalen, and leaves the connection as a write of just
\* these bytes would: the library keeps nothing of the rest.  A write_pkt
\* call sends no stream bytes,
\* also after MAX_STREAM_DATA and MAX_DATA have raised the limits; the
\* rest is sent when the application hands it to writev_stream again.
C18_RestNotHeld == [][C18_Step]_vars

\* A stream write has left a byte not accepted, the server has raised both
\* limits, and a write_pkt call has just been made.
C18_Witness ==
  /\ last.op = "write_pkt"
  /\ last.held > 0
  /\ conn.strms[0].tx.offset = MaxOff - 1
  /\ conn.strms[0].tx.max_offset = MaxOff
  /\ conn.tx.max_offset = MaxOff
  /\ rv \in {"OK", "NWRITE"}

(***************************************************************************)
(* SpecAdj: ngtcp2_pkt_adjust_pkt_num applied to a largest received packet *)
(* number (-1 before the first packet), a width in bits and a truncated    *)
(* packet number of that width.                                            *)
(***************************************************************************)
\* The largest received packet number an input names.
AdjMaxPktNum == 12

\* The widths: the narrow ones that exercise every window position, and
\* the eight bits of a one-byte packet number.
AdjBits == {1, 2, 3, 8}

InitAdj ==
  /\ conn = conn_new(FALSE)
  /\ rv = "OK"
  /\ \E max_pkt_num \in -1..AdjMaxPktNum, n \in AdjBits :
       \E pkt_num \in 0..(2 ^ n - 1) :
         last = Call("new", [max_pkt_num |-> max_pkt_num, pkt_num |-> pkt_num,
                             n |-> n])
  /\ dest = << >>
  /\ sent = [ns \in Spaces |-> {}]
  /\ fatal = FALSE

AdjustPktNum ==
  /\ last.op = "new"
  /\ rv' = ngtcp2_pkt_adjust_pkt_num(last.in.max_pkt_num, last.in.pkt_num, last.in.n)
  /\ last' = [last EXCEPT !.op = "adjust_pkt_num"]
  /\ UNCHANGED <<conn, dest, sent, fatal>>

NextAdj == AdjustPktNum

SpecAdj == InitAdj /\ [][NextAdj]_vars

AdjDist(x, y) == IF x < y THEN y - x ELSE x - y

\* C19: the result has the truncated number as its low bits, and no packet
\* number with these low bits is closer to the largest received packet
\* number plus one.
C19_ClosestToLargestPlusOne ==
  last.op = "adjust_pkt_num" =>
    LET e == last.in.max_pkt_num + 1
        w == 2 ^ last.in.n
    IN /\ rv % w = last.in.pkt_num
       /\ \A c \in 0..(e + w) :
            c % w = last.in.pkt_num => AdjDist(rv, e) <= AdjDist(c, e)

(***************************************************************************)
(* SpecAck: a client after the handshake whose Initial packet and whose    *)
(* Handshake packet with the last handshake data are still in flight.  It  *)
(* sends stream data, its loss detection timer expires, it retransmits     *)
(* handshake data and sends probes, and the server acknowledges its        *)
(* packets.                                                                *)
(***************************************************************************)
\* The largest packet number of the server in a space.
MaxAckRxPktNum == 1

\* The largest packet number an ACK frame of the server names.
MaxAckLargest == 1

\* The timer expires as long as no recovery counter has reached this.
MaxTimeouts == 2

AckRx(ns) ==
  IF conn[ns].rx.max_pkt_num < MaxAckRxPktNum THEN conn[ns].rx.max_pkt_num + 1 ELSE -1

AckFrames == {AckFrame(l, b) : l \in 0..MaxAckLargest, b \in {0, MaxAckLargest}}

AckPkts ==
  {Pkt(t, AckRx(pktns_of(t)), 1, <<fr>>) :
     t \in {NGTCP2_PKT_HANDSHAKE, NGTCP2_PKT_SHORT}, fr \in AckFrames}

\* The application calls ngtcp2_conn_on_loss_detection_timer when the timer
\* expires.
OnLossDetectionTimer ==
  /\ conn.rcs.loss_detection_timer
  /\ conn.rcs.crypto_count < MaxTimeouts
  /\ conn.rcs.pto_count < MaxTimeouts
  /\ \E r \in {ngtcp2_conn_on_loss_detection_timer(conn)} :
       DoRet(r, Call("on_loss_detection_timer", << >>))

AckConn ==
  ngtcp2_conn_open_bidi_stream(
    ngtcp2_conn_write_pkt(
      ngtcp2_conn_submit_crypto_data(Established, "hs_pktns"), 8).conn).conn

InitAck == InitAt(AckConn)

NextAck ==
  \/ ~fatal /\ WritevStream({8}, {0}, {FALSE}, {1})
  \/ ~fatal /\ WritePkt({-1, 8})
  \/ ~fatal /\ OnLossDetectionTimer
  \/ ~fatal /\ ReadPkt(AckPkts)

SpecAck == InitAck /\ [][NextAck]_vars

\* The packets in flight in the space of the packet p that the ACK frame
\* of p acknowledges.
AckNewlyAcked(call) ==
  {n \in call.in_flight :
     \E i \in DOMAIN call.in.frames :
       LET fr == call.in.frames[i]
       IN /\ fr.type = NGTCP2_FRAME_ACK
          /\ fr.largest_ack - fr.first_ack_blklen <= n
          /\ n <= fr.largest_ack}

\* The call has processed the ACK frame of its packet: the packets it
\* acknowledges have left the retransmission buffer.
AckProcessed(call, c) ==
  /\ call.op = "read_pkt"
  /\ AckNewlyAcked(call) # {}
  /\ AckNewlyAcked(call) \cap {e.pkt_num : e \in c[pktns_of(call.in.type)].rtb.ents} = {}

C20_Step ==
  AckProcessed(last', conn')
    => /\ conn'.rcs.crypto_count = 0
       /\ conn'.rcs.pto_count = 0
       /\ conn'.rcs.probe_pkt_left = 0

\* C20: whenever a received ACK frame newly acknowledges at least one
\* packet in flight, crypto_count, pto_count and probe_pkt_left are all
\* zero once the frame has been processed.
C20_AckResetsRecoveryCounters == [][C20_Step]_vars

\* An ACK frame has just acknowledged a packet in flight while all three
\* counters were positive.
C20_Witness ==
  /\ AckProcessed(last, conn)
  /\ last.rcs.crypto_count > 0
  /\ last.rcs.pto_count > 0
  /\ last.rcs.probe_pkt_left > 0
  /\ conn.rcs.crypto_count = 0
  /\ conn.rcs.pto_count = 0
  /\ conn.rcs.probe_pkt_left = 0

(***************************************************************************)
(* SpecSid: an established client receives STREAM frames that name any     *)
(* stream id, its own streams and the server's, opened or not and within   *)
(* or beyond the limits.  It opens its stream, finishes the server's       *)
(* stream, and writes the packets that raise the limits it has advertised. *)
(***************************************************************************)
\* The stream ids the frames name: the first two streams of every kind and
\* the third streams of the server.
SidStreams == 0..7 \cup {9, 11}

SidFrames ==
  {[type |-> NGTCP2_FRAME_STREAM, stream_id |-> s, offset |-> 0, datalen |-> 1,
    fin |-> TRUE] : s \in SidStreams}

SidPkts == {Pkt(NGTCP2_PKT_SHORT, NextRx("pktns"), 2, <<fr>>) : fr \in SidFrames}

InitSid == InitAt(Established)

NextSid ==
  \/ ~Failed /\ OpenBidiStream
  \/ ~Failed /\ WritevStream({8}, {1}, {TRUE}, {0})
  \/ ~Failed /\ WritePkt({8})
  \/ ~Failed /\ ReadPkt(SidPkts)

SpecSid == InitSid /\ [][NextSid]_vars

\* The call handed over a packet whose STREAM frame was processed.
SidStreamCall(call) ==
  /\ call.op = "read_pkt"
  /\ ~call.dup
  /\ RxFrame(call).type = NGTCP2_FRAME_STREAM

\* The endpoint c initiates the stream and has not opened it yet.
SidLocalUnopened(c, stream_id) ==
  /\ stream_id % 2 = (IF c.server THEN 1 ELSE 0)
  /\ stream_id >= c.local[IF stream_id % 4 \in {0, 1} THEN "bidi" ELSE "uni"].next_stream_id

\* The peer of c initiates the stream, and the stream is beyond the number
\* of streams of its kind c has advertised.
SidPeerBeyondLimit(c, stream_id) ==
  /\ stream_id % 2 # (IF c.server THEN 1 ELSE 0)
  /\ stream_id \div 4 + 1
       > c.remote[IF stream_id % 4 \in {0, 1} THEN "bidi" ELSE "uni"].max_streams

C26_Step ==
  SidStreamCall(last') =>
    /\ SidLocalUnopened(conn, RxFrame(last').stream_id) => rv' = "ERR_STREAM_STATE"
    /\ SidPeerBeyondLimit(conn, RxFrame(last').stream_id) => rv' = "ERR_STREAM_LIMIT"

\* C26: a received STREAM frame that names a stream of the local endpoint
\* which has not been opened yet is rejected with STREAM_STATE, and one
\* that names a stream of the peer beyond the stream limit the local
\* endpoint has advertised is rejected with STREAM_LIMIT.
C26_StreamIdChecked == [][C26_Step]_vars

\* After the client has opened its first bidirectional stream and raised
\* the limit of unidirectional streams to two, a frame on the server's
\* third unidirectional stream is rejected.
C26_Witness ==
  /\ SidStreamCall(last)
  /\ rv = "ERR_STREAM_LIMIT"
  /\ RxFrame(last).stream_id = 11
  /\ conn.remote.uni.max_streams = 2
  /\ conn.local.bidi.next_stream_id = 4

(***************************************************************************)
(* SpecStop: an established client opens its stream, writes data and FIN   *)
(* on it, and receives STOP_SENDING frames for its own streams and for the *)
(* server's, and writes the packets that become due.                       *)
(***************************************************************************)
StopFrames ==
  {[type |-> NGTCP2_FRAME_STOP_SENDING, stream_id |-> s, app_error_code |-> 1] :
     s \in 0..4}

StopPkts == {Pkt(NGTCP2_PKT_SHORT, NextRx("pktns"), 2, <<fr>>) : fr \in StopFrames}

InitStop == InitAt(Established)

NextStop ==
  \/ ~fatal /\ OpenBidiStream
  \/ ~fatal /\ WritevStream({8}, {0}, BOOLEAN, {0, 1})
  \/ ~fatal /\ WritePkt({8})
  \/ ~fatal /\ ReadPkt(StopPkts)

SpecStop == InitStop /\ [][NextStop]_vars

\* The call handed over a packet whose STOP_SENDING frame was processed.
StopCall(call) ==
  /\ call.op = "read_pkt"
  /\ ~call.dup
  /\ RxFrame(call).type = NGTCP2_FRAME_STOP_SENDING

\* The first frame waiting to be sent is a RESET_STREAM for the stream
\* with the given final size.
StopResetQueued(c, stream_id, final_size) ==
  /\ c.pktns.tx.frq # << >>
  /\ Head(c.pktns.tx.frq).type = NGTCP2_FRAME_RESET_STREAM
  /\ Head(c.pktns.tx.frq).stream_id = stream_id
  /\ Head(c.pktns.tx.frq).final_size = final_size

\* The stream has sent its FIN and nothing it has sent is unacknowledged.
StopAllSent(strm) ==
  "SHUT_WR" \in strm.flags /\ strm.tx.acked_offset = strm.tx.offset

C24_Original_Step ==
  StopCall(last') /\ RxFrame(last').stream_id \in DOMAIN conn.strms =>
    StopResetQueued(conn', RxFrame(last').stream_id,
                    conn.strms[RxFrame(last').stream_id].tx.offset)

\* C24 as the specification states it: when a STOP_SENDING frame for a
\* stream arrives, a RESET_STREAM for that stream is queued whose final
\* size is the stream's tx.offset at that moment.
C24_Original == [][C24_Original_Step]_vars

C24_Step ==
  StopCall(last') =>
    LET sid == RxFrame(last').stream_id
    IN /\ sid \in DOMAIN conn.strms =>
            IF StopAllSent(conn.strms[sid])
            THEN /\ conn'.pktns.tx.frq = conn.pktns.tx.frq
                 /\ conn'.strms = conn.strms
            ELSE /\ rv' = "OK"
                 /\ StopResetQueued(conn', sid, conn.strms[sid].tx.offset)
                 /\ Len(conn'.pktns.tx.frq) = Len(conn.pktns.tx.frq) + 1
       /\ sid \notin DOMAIN conn.strms =>
            IF rv' = "OK" /\ sid % 2 = 1 /\ sid \notin conn.remote.bidi.idtr
            THEN StopResetQueued(conn', sid, 0)
            ELSE conn'.pktns.tx.frq = conn.pktns.tx.frq

\* C24 (amended): a STOP_SENDING frame for an open stream queues a
\* RESET_STREAM for that stream whose final size is the stream's tx.offset
\* at that moment, unless the stream has sent its FIN and all its data is
\* acknowledged: then the frame queues nothing and leaves the streams as
\* they are.  A frame that opens a stream of the peer queues a RESET_STREAM
\* with final size 0; a frame that is rejected or names a closed stream
\* queues nothing.
C24_StopSendingQueuesReset == [][C24_Step]_vars

\* A STOP_SENDING arrives after the stream has sent bytes, and the
\* RESET_STREAM carries their number.
C24_Witness ==
  /\ StopCall(last)
  /\ RxFrame(last).stream_id = 0
  /\ StopResetQueued(conn, 0, 2)
  /\ conn.strms[0].tx.offset = 2

(***************************************************************************)
(* SpecDrain: a client or a server goes through the handshake, sends       *)
(* stream data, closes the connection or reads the peer's                  *)
(* CONNECTION_CLOSE at any point, and the application goes on calling      *)
(* every function afterwards, whatever the calls return.                   *)
(***************************************************************************)
DrainHsPkts ==
  {Pkt(t, HsRx(pktns_of(t)), 2, <<fr>>) :
     t \in {NGTCP2_PKT_INITIAL, NGTCP2_PKT_HANDSHAKE},
     fr \in {CryptoFrame, CloseFrame(NGTCP2_FRAME_CONNECTION_CLOSE)}}

DrainPkts ==
  {Pkt(NGTCP2_PKT_SHORT, HsRx("pktns"), 2, <<fr>>) :
     fr \in {[type |-> NGTCP2_FRAME_PING], CloseFrame(NGTCP2_FRAME_CONNECTION_CLOSE_APP)}}

DrainStates == {NGTCP2_CS_CLOSING, NGTCP2_CS_DRAINING}

\* The loss detection timer expires at any time once the connection is
\* closing or draining, and before that while no expiry is outstanding.
DrainTimer ==
  /\ conn.state \in DrainStates \/ conn.rcs.crypto_count + conn.rcs.pto_count = 0
  /\ OnLossDetectionTimer

InitDrain == \E server \in BOOLEAN : InitWith(conn_new(server))

NextDrain ==
  \/ ~fatal /\ ClientWriteHandshake({8}, {-1}, {0})
  \/ ~fatal /\ conn.server /\ WriteHandshake({8})
  \/ ~fatal /\ ReadHandshake(DrainHsPkts)
  \/ ~fatal /\ SubmitCryptoData
  \/ ~fatal /\ InstallKeys
  \/ ~fatal /\ SetRemoteTransportParams
  \/ ~fatal /\ HandshakeCompleted
  \/ ~fatal /\ OpenBidiStream
  \/ ~fatal /\ ReadPkt(DrainPkts)
  \/ ~fatal /\ WritePkt({8})
  \/ ~fatal /\ \E sid \in DOMAIN conn.strms : WritevStream({8}, {sid}, {FALSE}, {1})
  \/ ~fatal /\ DrainTimer
  \/ ~fatal /\ WriteConnectionClose({8}, {"NO_ERROR"})
  \/ ~fatal /\ WriteApplicationClose({8}, {"APP_ERROR"})

SpecDrain == InitDrain /\ [][NextDrain]_vars

C29_Step == conn.state \in DrainStates => conn'.state = conn.state

\* C29: once the connection state is CLOSING or DRAINING, no later call
\* (read_pkt, read_handshake, write_pkt, writev_stream, write_handshake,
\* either close call, or the loss detection timer callback), with any
\* input, changes it to any other state.
C29_ClosingDrainingAbsorbing == [][C29_Step]_vars

\* The state in which a call found the connection draining and left it so:
\* the peer's CONNECTION_CLOSE has arrived after the handshake, and the
\* application's own close is refused.
C29_Witness ==
  /\ conn.state = NGTCP2_CS_DRAINING
  /\ "HANDSHAKE_COMPLETED_HANDLED" \in conn.flags
  /\ last.op = "write_connection_close"
  /\ rv = "ERR_INVALID_STATE"

\* ---------------------------------------------------------------------
\* What a server sends before the client's address is verified.

AmpHsPkts ==
  {Pkt(t, HsRx(pktns_of(t)), 1, <<CryptoFrame>>) :
     t \in {NGTCP2_PKT_INITIAL, NGTCP2_PKT_HANDSHAKE}}

InitAmp == InitWith(conn_new(TRUE))

NextAmp ==
  \/ ~fatal /\ ReadHandshake(AmpHsPkts)
  \/ ~fatal /\ SubmitCryptoData
  \/ ~fatal /\ InstallKeys
  \/ ~fatal /\ SetRemoteTransportParams
  \/ ~fatal /\ HandshakeCompleted
  \/ ~fatal /\ WriteHandshake({8})
  \/ ~fatal /\ OpenBidiStream
  \/ ~fatal /\ \E sid \in DOMAIN conn.strms : WritevStream({8}, {sid}, BOOLEAN, {0, 1})
  \/ ~fatal /\ WriteConnectionClose({8}, {"NO_ERROR"})

SpecAmp == InitAmp /\ [][NextAmp]_vars

\* The address of the client of the server c is not verified.
AmpUnverified(c) == c.server /\ "SADDR_VERIFIED" \notin c.flags

\* The datagrams the server has written: those write_handshake has
\* counted, and those that carry a Short packet, one each, which only the
\* other writers produce.
AmpSent == conn.hs_sent + Cardinality(sent["pktns"])

\* C30: before the client's address is verified a server sends at most
\* three times what it has received, and hs_sent <= 3 * hs_recved holds
\* after every call.
C30_NoAmplification ==
  AmpUnverified(conn) => /\ conn.hs_sent <= 3 * conn.hs_recved
                         /\ AmpSent <= 3 * conn.hs_recved

\* The counter inequality alone.
AmpCounterBound == AmpUnverified(conn) => conn.hs_sent <= 3 * conn.hs_recved

(***************************************************************************)
(* Key update.  An established client receives Short packets of either key *)
(* phase in any order, genuine or forged, with or without frames, with a   *)
(* frame it cannot parse or a reserved bit set.                            *)
(***************************************************************************)
MaxKeyRxPktNum == 2

KeyPkts ==
  {[Pkt(NGTCP2_PKT_SHORT, n, 2, frames)
      EXCEPT !.auth = auth, !.key_phase = key_phase, !.rsv_ok = rsv_ok] :
     n \in 0..MaxKeyRxPktNum,
     frames \in {<< >>, <<[type |-> NGTCP2_FRAME_PING]>>, <<MalformedFrame>>},
     auth \in BOOLEAN, key_phase \in BOOLEAN, rsv_ok \in BOOLEAN}

InitKey == InitAt(Established)

NextKey ==
  \/ ~Failed /\ ReadPkt(KeyPkts)
  \/ ~Failed /\ WritePkt({8})

SpecKey == InitKey /\ [][NextKey]_vars

KeyCall(call) == call.op = "read_pkt" /\ call.in.type = NGTCP2_PKT_SHORT

KeyNum(c, p) == hd_pkt_num(c, "pktns", p)

\* The packet p does not decrypt under the current receive key of c: it is
\* forged or damaged, or the peer protected it with the key of the other
\* phase.
KeyFailsCurrent(c, p) ==
  conn_key_phase_changed(c, p) \/ ~conn_decrypt_pkt(p, KeyNum(c, p))

\* The packet p decrypts under the key that follows the current one.
KeyDecryptsNew(c, p) ==
  conn_key_phase_changed(c, p) /\ conn_decrypt_pkt(p, KeyNum(c, p))

\* The step from c to c2 has rotated the keys at the packet pkt_num.
KeyCommitted(c, c2, pkt_num) ==
  /\ c2.pktns.crypto.rx.key_phase # c.pktns.crypto.rx.key_phase
  /\ c2.crypto.key_update =
       [old_rx_ckm |-> TRUE, new_rx_ckm |-> FALSE, new_tx_ckm |-> FALSE]
  /\ c2.pktns.crypto.rx.pkt_num = pkt_num

\* The step from c to c2 has kept the current and the old key.
KeyKept(c, c2) ==
  /\ c2.pktns.crypto.rx.key_phase = c.pktns.crypto.rx.key_phase
  /\ c2.crypto.key_update.old_rx_ckm = c.crypto.key_update.old_rx_ckm

C23_Original_Step ==
  KeyCall(last') /\ KeyFailsCurrent(conn, last'.in) =>
    IF /\ KeyDecryptsNew(conn, last'.in)
       /\ KeyNum(conn, last'.in) > conn.pktns.rx.max_pkt_num
    THEN KeyCommitted(conn, conn', KeyNum(conn, last'.in))
    ELSE KeyKept(conn, conn')

\* C23 as stated: a Short packet that does not decrypt under the current
\* receive key is tried with the staged new key, and the rotation is
\* committed exactly when that decryption succeeds and the packet number
\* exceeds the largest received.
C23_Original == [][C23_Original_Step]_vars

C23_Step ==
  KeyCall(last') =>
    IF /\ KeyProbe(conn, last'.in)
       /\ conn_decrypt_pkt(last'.in, KeyNum(conn, last'.in))
       /\ last'.in.rsv_ok
       /\ last'.in.frames # << >>
       /\ rv' = "OK"
    THEN KeyCommitted(conn, conn', KeyNum(conn, last'.in))
    ELSE /\ KeyKept(conn, conn')
         /\ KeyProbe(conn, last'.in) => /\ conn'.crypto.key_update.new_rx_ckm
                                        /\ conn'.crypto.key_update.new_tx_ckm

\* C23 (amended): a Short packet whose key phase bit differs from the
\* current receive key's, with a packet number beyond the largest received,
\* is decrypted with the new key, which is staged for it if need be; the
\* rotation is committed exactly when in addition the decryption succeeds,
\* the reserved bits are clear, the packet has a frame and its frames are
\* processed without error.  Otherwise the keys stay as they are.
C23_KeyUpdateCommitted == [][C23_Step]_vars

\* The keys have been rotated twice, the second time by packet 2.
C23_Witness ==
  /\ last.op = "read_pkt"
  /\ rv = "OK"
  /\ ~last.in.key_phase
  /\ last.in.pkt_num = MaxKeyRxPktNum
  /\ conn.crypto.key_update.old_rx_ckm
  /\ ~conn.crypto.key_update.new_rx_ckm
  /\ ~conn.pktns.crypto.rx.key_phase
  /\ conn.pktns.crypto.rx.pkt_num = MaxKeyRxPktNum

(***************************************************************************)
(* ACK blocks.  An established client receives the Short packets 0..7 in   *)
(* any order, each with a PING frame, and writes packets whenever it       *)
(* likes.                                                                  *)
(***************************************************************************)
MaxBlkRxPktNum == 7

BlkPkts ==
  {Pkt(NGTCP2_PKT_SHORT, n, 4, <<[type |-> NGTCP2_FRAME_PING]>>) :
     n \in 0..MaxBlkRxPktNum}

InitBlk == InitAt(Established)

NextBlk ==
  \/ ~Failed /\ ReadPkt(BlkPkts)
  \/ ~Failed /\ WritePkt({8})

SpecBlk == InitBlk /\ [][NextBlk]_vars

\* The received packet numbers of the example.
BlkExample == {0, 1, 2, 4, 6, 7}

\* The ACK frames of the Short packets among pkts.
BlkAcks(pkts) ==
  UNION {{pkts[i].frames[j] :
            j \in {k \in DOMAIN pkts[i].frames :
                     pkts[i].frames[k].type = NGTCP2_FRAME_ACK}} :
         i \in {k \in DOMAIN pkts : pkts[k].type = NGTCP2_PKT_SHORT}}

\* The call is a write of a packet by a connection that has received the
\* Short packets S, owes an acknowledgement of them and none of an Initial
\* or Handshake packet, and has a packet number left.
BlkCase(c, call, S) ==
  /\ call.op = "write_pkt"
  /\ c.pktns.acktr.ents = S
  /\ ngtcp2_acktr_require_active_ack(c.pktns.acktr)
  /\ ~ngtcp2_acktr_require_active_ack(c.in_pktns.acktr)
  /\ ~ngtcp2_acktr_require_active_ack(c.hs_pktns.acktr)
  /\ ~conn_check_pkt_num_exhausted(c)

C27_Step ==
  BlkCase(conn, last', BlkExample) =>
    /\ rv' = "NWRITE"
    /\ BlkAcks(dest') =
         {[type |-> NGTCP2_FRAME_ACK, largest_ack |-> 7, first_ack_blklen |-> 1,
           num_blks |-> 2,
           blks |-> <<[gap |-> 0, blklen |-> 0], [gap |-> 0, blklen |-> 2]>>]}

\* C27: with the received packet numbers {0,1,2,4,6,7} the ACK frame written
\* has largest_ack 7, first_ack_blklen 1, then a block with gap 0 and length
\* 0 (packet 4) and a block with gap 0 and length 2 (packets 0..2).
C27_AckBlocks == [][C27_Step]_vars

\* The packet numbers an ACK frame acknowledges.
RECURSIVE BlkCovered(_, _, _)
BlkCovered(fr, i, smallest) ==
  IF i > fr.num_blks THEN {}
  ELSE LET largest == smallest - fr.blks[i].gap - 2
       IN (largest - fr.blks[i].blklen)..largest
            \cup BlkCovered(fr, i + 1, largest - fr.blks[i].blklen)

BlkAcked(fr) ==
  ((fr.largest_ack - fr.first_ack_blklen)..fr.largest_ack)
    \cup BlkCovered(fr, 1, fr.largest_ack - fr.first_ack_blklen)

\* Every ACK frame written acknowledges packets received, and all of them
\* unless it is full.
BlkSound ==
  [][\A fr \in BlkAcks(dest') :
       /\ BlkAcked(fr) \subseteq conn.pktns.acktr.ents
       /\ fr.num_blks < NGTCP2_MAX_ACK_BLKS => BlkAcked(fr) = conn.pktns.acktr.ents]_vars

\* The ACK frame of the example has been written.
C27_Witness ==
  /\ last.op = "write_pkt"
  /\ rv = "NWRITE"
  /\ conn.pktns.acktr.ents = BlkExample
  /\ \E fr \in BlkAcks(dest) : fr.largest_ack = 7 /\ fr.num_blks = 2

(***************************************************************************)
(* SpecScid: a client after the handshake whose peer retires the source    *)
(* connection IDs the client has issued, while time passes.                *)
(***************************************************************************)
\* The clock stops at MaxScidTs; the peer's packets arrive until
\* MaxScidReadTs.
MaxScidTs == 9

MaxScidReadTs == 1

MaxScidRxPktNum == 1

ScidRx ==
  IF conn.pktns.rx.max_pkt_num < MaxScidRxPktNum
  THEN conn.pktns.rx.max_pkt_num + 1 ELSE -1

\* The times an API function can be called at: the clock does not go back.
Times(max) == conn.log.last_ts..max

\* The times the application asks for a packet at: at once, or when the
\* time a retired connection ID is kept is about to end.
ScidWriteTimes ==
  {ts \in Times(MaxScidTs) :
     ts = conn.log.last_ts \/ ts >= 6 * NGTCP2_DEFAULT_INITIAL_RTT}

\* Every API function that takes the time ts starts with
\* conn->log.last_ts = ts.
conn_at(c, ts) == [c EXCEPT !.log.last_ts = ts]

RetireConnectionIdFrame(seq) ==
  [type |-> NGTCP2_FRAME_RETIRE_CONNECTION_ID, seq |-> seq]

ScidPkts ==
  {[Pkt(NGTCP2_PKT_SHORT, ScidRx, 1, <<fr>>) EXCEPT !.dcid = dcid] :
     fr \in {[type |-> NGTCP2_FRAME_PING]}
              \cup {RetireConnectionIdFrame(seq) : seq \in 1..2},
     dcid \in {<<1>>, <<2>>}}

\* The application hands a datagram to the library at the time ts.
ReadPktAt(pkts, tss) ==
  \E ts \in tss, p \in pkts :
    /\ p.pkt_num >= 0
    /\ conn[pktns_of(p.type)].crypto.rx.ckm
    /\ \E r \in {ngtcp2_conn_read_pkt(conn_at(conn, ts), p)} :
         DoRet(r, RecvCall("read_pkt", p))

\* The application asks for a packet at the time ts.  Its callbacks answer
\* each request for a new connection ID with one that is not in use, and
\* cb to a removal.
WritePktAt(lefts, tss, cbs) ==
  \E left \in lefts, ts \in tss, cb \in cbs :
    /\ conn.scid.last_seq + conn_required_num_new_connection_id(conn) <= MaxCid
    /\ \E r \in {ngtcp2_conn_write_pkt(
                   [conn_at(conn, ts) EXCEPT
                      !.callbacks.get_new_connection_id =
                         [i \in 1..conn_required_num_new_connection_id(conn) |->
                            [rv |-> "OK", cid |-> <<conn.scid.last_seq + i + 1>>]],
                      !.callbacks.remove_connection_id = cb],
                   left)} :
         DoWrite([r EXCEPT !.conn.callbacks.get_new_connection_id = << >>,
                           !.conn.callbacks.remove_connection_id = "OK"],
                 Call("write_pkt", [left |-> left, cb |-> cb]))

InitScid == InitAt(CidEstablished)

NextScid ==
  \/ ~fatal /\ ReadPktAt(ScidPkts, Times(MaxScidReadTs))
  \/ ~fatal /\ WritePktAt({8}, ScidWriteTimes, {"OK", "ERR"})
  \/ ~fatal /\ OnLossDetectionTimer

SpecScid == InitScid /\ [][NextScid]_vars

\* The source connection IDs of c the peer has retired.
ScidRetired(c) == {s \in c.scid.set : "RETIRED" \in s.flags}

\* The time a retired source connection ID is kept:
\* max(pto, 6 * default_initial_rtt).
ScidKept(c) == ngtcp2_max(conn_compute_pto(c), 6 * NGTCP2_DEFAULT_INITIAL_RTT)

\* At the time ts the source connection ID s of c has been retired for
\* longer than it is kept.
ScidDue(c, s, ts) == s.ts_retired + ScidKept(c) < ts

\* The call hands over a packet that is addressed to a source connection
\* ID of the connection and that is not a duplicate.
ScidRead(c, call) ==
  /\ call.op = "read_pkt"
  /\ ~call.dup
  /\ call.in.dcid \in ScidCids(c)

\* C25: a source connection ID the peer retires with RETIRE_CONNECTION_ID
\* in a packet read at the time t is marked retired with ts_retired = t.  It
\* stays in the SCID set, and a packet addressed to it is processed, until a
\* packet is written at a time later than t + max(pto, 6 *
\* default_initial_rtt); the write at such a time removes it.
C25_Step ==
  /\ \A s \in conn.scid.set :
       (/\ ScidRead(conn, last')
        /\ last'.in.frames = <<RetireConnectionIdFrame(s.seq)>>
        /\ rv' = "OK")
       => [s EXCEPT !.flags = @ \cup {"RETIRED"},
                    !.ts_retired = conn'.log.last_ts] \in conn'.scid.set
  /\ \A s \in ScidRetired(conn) :
       \/ last'.op = "write_pkt" /\ ScidDue(conn, s, conn'.log.last_ts)
       \/ s.cid \in ScidCids(conn')
  /\ \A s \in ScidRetired(conn) :
       (ScidRead(conn, last') /\ last'.in.dcid = s.cid /\ rv' = "OK")
       => last'.in.pkt_num \in conn'.pktns.rx.pngap
  /\ \A s \in ScidRetired(conn) :
       (/\ last'.op = "write_pkt"
        /\ rv' \in {"OK", "NWRITE"}
        /\ ScidDue(conn, s, conn'.log.last_ts))
       => s.cid \notin ScidCids(conn')

MaxPathRxPktNum == 3
MaxPathTs == 12

\* A server after the handshake.
ServerEstablished ==
  The({
    The({
      The({
        The({
          The({w2.conn :
                 w2 \in {ngtcp2_conn_write_handshake(
                           ngtcp2_conn_handshake_completed(
                             ngtcp2_conn_set_remote_transport_params(
                               r2.conn, Params(MaxOff - 1, MaxOff - 1), TRUE).conn),
                           8)}}) :
          r2 \in {ngtcp2_conn_read_handshake(
                    w1.conn, Pkt(NGTCP2_PKT_HANDSHAKE, 0, 2, <<CryptoFrame>>))}}) :
        w1 \in {ngtcp2_conn_write_handshake(k2, 8)}}) :
      k2 \in {ngtcp2_conn_install_keys(
                ngtcp2_conn_install_keys(
                  ngtcp2_conn_submit_crypto_data(k1, "hs_pktns"), "pktns", "tx"),
                "pktns", "rx")}}) :
    k1 \in {ngtcp2_conn_install_keys(
              ngtcp2_conn_install_keys(
                ngtcp2_conn_submit_crypto_data(
                  ngtcp2_conn_read_handshake(
                    conn_new(TRUE),
                    Pkt(NGTCP2_PKT_INITIAL, 0, 2, <<CryptoFrame>>)).conn,
                  "in_pktns"),
                "hs_pktns", "tx"),
              "hs_pktns", "rx")}})

\* The connection IDs ngtcp2_conn_server_new is given: scid, the server's
\* own, and dcid, the client's.
PathScid == <<1>>
PathDcid == <<9>>

PathServer ==
  [ServerEstablished EXCEPT
     !.oscid = PathScid,
     !.scid.set = {[s EXCEPT !.cid = PathScid] : s \in @},
     !.scid.used = {PathScid : u \in @},
     !.dcid.current.cid = PathDcid]

PathRx ==
  IF conn.pktns.rx.max_pkt_num < MaxPathRxPktNum
  THEN conn.pktns.rx.max_pkt_num + 1 ELSE -1

NewConnectionIdFrame(seq, cid) ==
  [type |-> NGTCP2_FRAME_NEW_CONNECTION_ID, seq |-> seq, cid |-> cid]

PathChallengeFrame(data) == [type |-> NGTCP2_FRAME_PATH_CHALLENGE, data |-> data]

PathResponseFrame(data) == [type |-> NGTCP2_FRAME_PATH_RESPONSE, data |-> data]

\* The peer sends from its first path, 0, or from another one, 1.  It
\* answers a challenge, with the data of the challenge or with other data,
\* or sends a PING.
PathPkts ==
  {[Pkt(NGTCP2_PKT_SHORT, PathRx, 1, <<fr>>) EXCEPT !.dcid = PathScid, !.path = path] :
     fr \in {[type |-> NGTCP2_FRAME_PING], PathResponseFrame(0), PathResponseFrame(1)},
     path \in {0, 1}}

\* The server has got a connection ID from its peer and has issued its
\* own.
PathConn ==
  The({
    ngtcp2_conn_write_pkt(
      [r.conn EXCEPT !.callbacks.get_new_connection_id =
                       [i \in 1..conn_required_num_new_connection_id(r.conn) |->
                          [rv |-> "OK", cid |-> <<i + 1>>]]], 8).conn :
    r \in {ngtcp2_conn_read_pkt(
             PathServer,
             [Pkt(NGTCP2_PKT_SHORT, 0, 1, <<NewConnectionIdFrame(1, <<10>>)>>)
                EXCEPT !.dcid = PathScid])}})

\* The times the application asks for a packet at: at once, or when a
\* challenge or the validation may have run out of time.
PathWriteTimes ==
  {ts \in Times(MaxPathTs) :
     ts = conn.log.last_ts \/ ts = conn.log.last_ts + 6 * NGTCP2_DEFAULT_INITIAL_RTT}

\* The application hands a datagram to the library; its path_validation
\* callback answers cb.
ReadPathPkt(pkts, cbs) ==
  \E p \in pkts, cb \in cbs :
    /\ p.pkt_num >= 0
    /\ \E r \in {ngtcp2_conn_read_pkt([conn EXCEPT !.callbacks.path_validation = cb], p)} :
         DoRet([r EXCEPT !.conn.callbacks.path_validation = "OK"],
               RecvCall("read_pkt", p) @@ [cb |-> cb])

\* The application asks for a packet at the time ts.  Its callbacks answer
\* each request for a new connection ID with one that is not in use, rand
\* to a request for random data and cb to the outcome of a validation.
WritePathPkt(lefts, tss, rands, cbs) ==
  \E left \in lefts, ts \in tss, rand \in rands, cb \in cbs :
    /\ conn.scid.last_seq + conn_required_num_new_connection_id(conn) <= MaxCid
    /\ \E r \in {ngtcp2_conn_write_pkt(
                   [conn_at(conn, ts) EXCEPT
                      !.callbacks.get_new_connection_id =
                         [i \in 1..conn_required_num_new_connection_id(conn) |->
                            [rv |-> "OK", cid |-> <<conn.scid.last_seq + i + 1>>]],
                      !.callbacks.rand = rand,
                      !.callbacks.path_validation = cb],
                   left)} :
         DoWrite([r EXCEPT !.conn.callbacks.get_new_connection_id = << >>,
                           !.conn.callbacks.rand = [rv |-> "OK", data |-> 0],
                           !.conn.callbacks.path_validation = "OK"],
                 Call("write_pkt", [left |-> left, rand |-> rand, cb |-> cb]))

InitPath == InitAt(PathConn)

NextPath ==
  \/ ~fatal /\ ReadPathPkt(PathPkts, {"OK", "ERR"})
  \/ ~fatal /\ WritePathPkt({8}, PathWriteTimes,
                            {[rv |-> "OK", data |-> 0], [rv |-> "ERR", data |-> 0]},
                            {"OK", "ERR"})
  \/ ~fatal /\ OnLossDetectionTimer

SpecPath == InitPath /\ [][NextPath]_vars

\* The call hands over a PATH_RESPONSE that validates the path of the
\* running validation of c: it comes on that path and echoes a challenge
\* that is outstanding.
PvValidates(c, call) ==
  /\ c.pv # << >>
  /\ call.op = "read_pkt"
  /\ ~call.dup
  /\ call.in.path = c.pv[1].dcid.path
  /\ call.in.frames[1].type = NGTCP2_FRAME_PATH_RESPONSE
  /\ \E i \in DOMAIN c.pv[1].ents : c.pv[1].ents[i].data = call.in.frames[1].data

\* The connection ID the connection used before the running validation.
PvOldDcid(c) ==
  IF "FALLBACK_ON_FAILURE" \in c.pv[1].flags THEN c.pv[1].fallback_dcid
  ELSE c.dcid.current

\* The counters of the recovery state are those of a new connection.
RcsReset(c) ==
  /\ c.rcs.crypto_count = rcs_init.crypto_count
  /\ c.rcs.pto_count = rcs_init.pto_count
  /\ c.rcs.probe_pkt_left = rcs_init.probe_pkt_left

\* C21: when a PATH_RESPONSE validates the path, the validated connection
\* ID is the current one afterwards, the connection ID used before is among
\* the retired ones, and the recovery state is that of a new connection.
C21_Step ==
  (PvValidates(conn, last') /\ rv' = "OK")
  => /\ conn'.dcid.current = conn.pv[1].dcid
     /\ \E i \in DOMAIN conn'.dcid.retired :
          conn'.dcid.retired[i].seq = PvOldDcid(conn).seq
     /\ RcsReset(conn')

C21_ValidationSucceeds == [][C21_Step]_vars

\* The call asks for a packet when the deadline of the running validation
\* of c, one with a fallback, has passed.
PvTimesOut(c, call, ts) ==
  /\ c.pv # << >>
  /\ call.op = "write_pkt"
  /\ "FALLBACK_ON_FAILURE" \in c.pv[1].flags
  /\ c.rx.path_challenge = << >>
  /\ conn_peer_has_unused_cid(c)
  /\ c.pv[1].started_ts # UINT64_MAX
  /\ c.pv[1].started_ts + c.pv[1].timeout <= ts

\* C22: when the validation of a path fails and the validator has a
\* fallback, the fallback connection ID is the current one afterwards and
\* the recovery state is that of a new connection.
C22_Step ==
  (PvTimesOut(conn, last', conn'.log.last_ts) /\ rv' \in {"OK", "NWRITE"})
  => /\ conn'.dcid.current = conn.pv[1].fallback_dcid
     /\ RcsReset(conn')

C22_ValidationFails == [][C22_Step]_vars

(***************************************************************************)
(* The pools of a connection: the rings of destination connection IDs, the *)
(* ring of PATH_CHALLENGEs to answer and the chains of packets that came   *)
(* before their keys.                                                      *)
(***************************************************************************)
MaxPoolRxPktNum == 7
MaxPoolRecved == 4

\* A client that has sent its first Initial packet.
PoolClient ==
  ngtcp2_conn_client_write_handshake(conn_new(FALSE), 8, -1, FALSE, 0).conn

PoolRx ==
  IF conn.pktns.rx.max_pkt_num < MaxPoolRxPktNum
  THEN conn.pktns.rx.max_pkt_num + 1 ELSE -1

\* The destination connection IDs the connection knows of.
PoolDcids(c) ==
  {c.dcid.current}
    \cup UNION {{rb[i] : i \in DOMAIN rb} :
                 rb \in {c.dcid.unused, c.dcid.bound, c.dcid.retired}}
    \cup UNION {{c.pv[i].dcid, c.pv[i].fallback_dcid} : i \in DOMAIN c.pv}

\* The peer numbers the connection IDs it issues in sequence.
PoolNextSeq == Max({d.seq : d \in PoolDcids(conn)}) + 1

\* What the peer sends during the handshake: its handshake data, and a PING
\* in a Short packet, which may overtake them.
PoolHsPkts ==
  {Pkt(t, 0, 1, <<CryptoFrame>>) : t \in {NGTCP2_PKT_INITIAL, NGTCP2_PKT_HANDSHAKE}}
    \cup {Pkt(NGTCP2_PKT_SHORT, n, 1, <<[type |-> NGTCP2_FRAME_PING]>>) : n \in {0, 1}}

\* A path the peer has not used yet.
PoolNextPath ==
  Max({d.path : d \in PoolDcids(conn)}
        \cup {conn.rx.path_challenge[i].path : i \in DOMAIN conn.rx.path_challenge})
    + 1

\* What the peer sends after the handshake: a PING from a new path, a new
\* connection ID, or more PATH_CHALLENGEs than the ring holds, from a new
\* path or from the path 1.
PoolPkts ==
  {[Pkt(NGTCP2_PKT_SHORT, PoolRx, 1, <<[type |-> NGTCP2_FRAME_PING]>>)
      EXCEPT !.dcid = conn.oscid, !.path = PoolNextPath]}
    \cup {[Pkt(NGTCP2_PKT_SHORT, PoolRx, 1,
               <<NewConnectionIdFrame(PoolNextSeq, <<9 + PoolNextSeq>>)>>)
             EXCEPT !.dcid = conn.oscid, !.path = conn.dcid.current.path]}
    \cup {[Pkt(NGTCP2_PKT_SHORT, PoolRx, 1,
               [i \in 1..(MaxPathChallenge + 1) |-> PathChallengeFrame(i)])
             EXCEPT !.dcid = conn.oscid, !.path = path] : path \in {1, PoolNextPath}}

\* The application hands a datagram to the library during the handshake,
\* whether or not the keys of the packet are there.
ReadHandshakeAny(pkts) ==
  \E p \in pkts :
    /\ conn.hs_recved < MaxPoolRecved
    /\ conn.state \notin {NGTCP2_CS_POST_HANDSHAKE, NGTCP2_CS_CLOSING, NGTCP2_CS_DRAINING}
    /\ \E r \in {ngtcp2_conn_read_handshake(conn, p)} :
         DoRet(r, RecvCall("read_handshake", p))

\* A server after the handshake whose peer has issued two connection IDs.
PoolServer ==
  The({
    ngtcp2_conn_read_pkt(
      r.conn,
      [Pkt(NGTCP2_PKT_SHORT, 1, 1, <<NewConnectionIdFrame(2, <<11>>)>>)
         EXCEPT !.dcid = PathScid]).conn :
    r \in {ngtcp2_conn_read_pkt(
             PathServer,
             [Pkt(NGTCP2_PKT_SHORT, 0, 1, <<NewConnectionIdFrame(1, <<10>>)>>)
                EXCEPT !.dcid = PathScid])}})

InitPool == \E c \in {PoolClient, PoolServer} : InitAt(c)

NextPool ==
  \/ ~fatal /\ ReadHandshakeAny(PoolHsPkts)
  \/ ~fatal /\ InstallKeys
  \/ ~fatal /\ SetRemoteTransportParams
  \/ ~fatal /\ HandshakeCompleted
  \/ ~fatal /\ ClientWriteHandshake({8}, {-1}, {0})
  \/ ~fatal /\ conn.server /\ ReadPathPkt(PoolPkts, {"OK"})
  \/ ~fatal /\ conn.server
             /\ WritePathPkt({8}, {conn.log.last_ts}, {[rv |-> "OK", data |-> 0]}, {"OK"})

SpecPool == InitPool /\ [][NextPool]_vars

\* C28: the connection holds at most NGTCP2_MAX_DCID_POOL_SIZE unused,
\* NGTCP2_MAX_DCID_RETIRED_SIZE retired and NGTCP2_MAX_BOUND_DCID_POOL_SIZE
\* bound destination connection IDs, four PATH_CHALLENGEs to answer, and
\* NGTCP2_MAX_NUM_BUFFED_RX_PKTS buffered packets in each packet number
\* space, whatever packets and frames it has received.
C28_PoolsBounded ==
  /\ Len(conn.dcid.unused) <= NGTCP2_MAX_DCID_POOL_SIZE
  /\ Len(conn.dcid.retired) <= NGTCP2_MAX_DCID_RETIRED_SIZE
  /\ Len(conn.dcid.bound) <= NGTCP2_MAX_BOUND_DCID_POOL_SIZE
  /\ Len(conn.rx.path_challenge) <= 4
  /\ \A ns \in Spaces : Len(conn[ns].rx.buffed_pkts) <= NGTCP2_MAX_NUM_BUFFED_RX_PKTS

\* The peer has sent more PATH_CHALLENGEs in one packet than the ring holds
\* while the rings of unused and of bound connection IDs are full.
C28_Witness ==
  /\ last.op = "read_pkt"
  /\ Len(last.in.frames) > MaxPathChallenge
  /\ \A i \in DOMAIN last.in.frames :
       last.in.frames[i].type = NGTCP2_FRAME_PATH_CHALLENGE
  /\ rv = "OK"
  /\ Len(conn.rx.path_challenge) = MaxPathChallenge
  /\ Len(conn.dcid.unused) = NGTCP2_MAX_DCID_POOL_SIZE
  /\ Len(conn.dcid.bound) = NGTCP2_MAX_BOUND_DCID_POOL_SIZE

(***************************************************************************)
(* SpecTail: an established server whose peer sends Short packets that     *)
(* hold one frame, or a CONNECTION_CLOSE and a frame after it, from the    *)
(* path of the connection or from a new one.                               *)
(***************************************************************************)
MaxTailRxPktNum == 2

TailRx ==
  IF conn.pktns.rx.max_pkt_num < MaxTailRxPktNum
  THEN conn.pktns.rx.max_pkt_num + 1 ELSE -1

\* Data on the first stream of the client, more credit for the connection,
\* another connection ID, and a PING.
TailFrames ==
  {[type |-> NGTCP2_FRAME_STREAM, stream_id |-> 0, offset |-> 0, datalen |-> 1,
    fin |-> FALSE],
   [type |-> NGTCP2_FRAME_MAX_DATA, max_data |-> MaxOff + 1],
   NewConnectionIdFrame(2, <<11>>),
   [type |-> NGTCP2_FRAME_PING]}

TailPkts ==
  {[Pkt(NGTCP2_PKT_SHORT, TailRx, 1, frames) EXCEPT !.dcid = PathScid, !.path = path] :
     frames \in {<<fr>> : fr \in TailFrames}
                  \cup {<<CloseFrame(NGTCP2_FRAME_CONNECTION_CLOSE), fr>> :
                          fr \in TailFrames},
     path \in {0, 1}}

InitTail == InitAt(PathConn)

NextTail ==
  \/ ~fatal /\ ReadPathPkt(TailPkts, {"OK"})
  \/ ~fatal /\ WritePathPkt({8}, {conn.log.last_ts}, {[rv |-> "OK", data |-> 0]}, {"OK"})

SpecTail == InitTail /\ [][NextTail]_vars

\* The frames of the packet p up to its first CONNECTION_CLOSE.
TailCut(p) ==
  LET close == {i \in DOMAIN p.frames :
                  p.frames[i].type \in {NGTCP2_FRAME_CONNECTION_CLOSE,
                                        NGTCP2_FRAME_CONNECTION_CLOSE_APP}}
  IN [p EXCEPT !.frames = SubSeq(@, 1, Min(close))]

\* The call has read a packet in which a frame follows a CONNECTION_CLOSE
\* that has moved the connection c to NGTCP2_CS_DRAINING.
TailCase(c, call, c1) ==
  /\ call.op = "read_pkt"
  /\ c.state = NGTCP2_CS_POST_HANDSHAKE
  /\ c1.state = NGTCP2_CS_DRAINING
  /\ Len(TailCut(call.in).frames) < Len(call.in.frames)

\* The state of the streams, of the flow control, of the connection IDs and
\* of the path validation, and what the application was handed.
TailState(c) ==
  [strms |-> c.strms, user_data |-> c.user_data, tx |-> c.tx, rx |-> c.rx,
   local |-> c.local, remote |-> c.remote, dcid |-> c.dcid, scid |-> c.scid,
   pv |-> c.pv]

C31_Step ==
  TailCase(conn, last', conn')
  => TailState(conn') = TailState(ngtcp2_conn_read_pkt(conn, TailCut(last'.in)).conn)

\* C31: once a CONNECTION_CLOSE frame of a received packet has moved the
\* connection to DRAINING, the frames after it in that packet change
\* nothing: the streams, the flow control, the connection IDs and the path
\* validation are as if the packet had ended with the CONNECTION_CLOSE, and
\* the application is handed no stream data.
C31_NothingAfterClose == [][C31_Step]_vars

(***************************************************************************)
(* The write call that has nothing to send.                                *)
(***************************************************************************)
\* An acknowledgement is to be sent in the space ns of c.
AckToSend(c, ns) ==
  /\ c[ns].crypto.tx.ckm
  /\ ngtcp2_acktr_require_active_ack(c[ns].acktr)
  /\ c[ns].acktr.ents # {}

\* An ack-eliciting frame is to be sent: a PATH_RESPONSE or a
\* PATH_CHALLENGE, handshake data, a probe, a NEW_CONNECTION_ID that is to
\* be issued, a frame of the frame queue that is not obsolete, CRYPTO data,
\* a MAX_DATA, MAX_STREAMS or MAX_STREAM_DATA that is due, or a STREAM frame
\* that waits for retransmission.
FrameToSend(c) ==
  \/ c.rx.path_challenge # << >>
  \/ c.pv # << >>
  \/ \E ns \in Spaces : c[ns].crypto.tx.frq # 0
  \/ c.rcs.probe_pkt_left # 0
  \/ c.oscid # << >> /\ conn_required_num_new_connection_id(c) # 0
  \/ \E i \in DOMAIN c.pktns.tx.frq : ~frq_obsolete(c, c.pktns.tx.frq[i])
  \/ conn_should_send_max_data(c) /\ c.rx.unsent_max_offset > c.rx.max_offset
  \/ c.remote.bidi.unsent_max_streams > c.remote.bidi.max_streams
  \/ c.remote.uni.unsent_max_streams > c.remote.uni.max_streams
  \/ c.tx.strmq # << >>

\* ngtcp2_conn_write_pkt is called on the connection c after the handshake
\* with nothing to send.
NothingToSend(c, call) ==
  /\ call.op = "write_pkt"
  /\ c.state = NGTCP2_CS_POST_HANDSHAKE
  /\ c.pktns.tx.last_pkt_num < NGTCP2_MAX_PKT_NUM
  /\ ~FrameToSend(c)
  /\ \A ns \in Spaces : ~AckToSend(c, ns)

C32_Step ==
  NothingToSend(conn, last')
  => /\ rv' = "OK"
     /\ dest' = << >>
     /\ \A ns \in Spaces :
          /\ conn'[ns].tx.last_pkt_num = conn[ns].tx.last_pkt_num
          /\ conn'[ns].rtb.ents = conn[ns].rtb.ents

\* C32: a write call that has no ack-eliciting frame and no acknowledgement
\* to send writes no packet: it returns 0, and in every packet number
\* space tx.last_pkt_num and the retransmit buffer are unchanged.  The
\* flag NGTCP2_CONN_FLAG_FORCE_SEND_HANDSHAKE is no frame to send.
C32_NothingToSend == [][C32_Step]_vars

(***************************************************************************)
(* SpecCwnd: an established client with stream 0 open whose congestion     *)
(* window the controller has reduced after losses.  The application writes *)
(* stream data, the server acknowledges packets, and the loss detection    *)
(* timer asks for probe packets.                                           *)
(***************************************************************************)
MaxCwndRxPktNum == 2

\* The window after a loss: ssthresh = max(cwnd / 2, 2 * MTU), cwnd = ssthresh.
cc_on_loss(cwnd) == ngtcp2_max(cwnd \div 2, NGTCP2_MIN_CWND)

\* The windows after the third and the fourth loss.
CwndSet ==
  {cc_on_loss(cc_on_loss(cc_on_loss(ccs_init.cwnd))),
   cc_on_loss(cc_on_loss(cc_on_loss(cc_on_loss(ccs_init.cwnd))))}

CwndRx ==
  IF conn.pktns.rx.max_pkt_num < MaxCwndRxPktNum THEN conn.pktns.rx.max_pkt_num + 1
  ELSE -1

\* The server acknowledges all packets up to one the client has sent.
CwndPkts ==
  {Pkt(NGTCP2_PKT_SHORT, CwndRx, 1, <<AckFrame(l, l)>>) :
     l \in 0..conn.pktns.tx.last_pkt_num}

\* The application writes stream data; the call is recorded with the data
\* it was given.
CwndWritevStream(lefts, sids, lens) ==
  \E left \in lefts, sid \in sids, datalen \in lens :
    \E r \in {ngtcp2_conn_writev_stream(conn, left, sid, FALSE, datalen)} :
      DoWrite(r, Call("writev_stream", [left |-> left, stream_id |-> sid,
                                        datalen |-> datalen]))

InitCwnd == \E w \in CwndSet : InitAt([HoldConn EXCEPT !.ccs.cwnd = w])

NextCwnd ==
  \/ ~fatal /\ CwndWritevStream({4, 8}, {0}, {1, 2})
  \/ ~fatal /\ WritePkt({8})
  \/ ~fatal /\ ReadPkt(CwndPkts)
  \/ ~fatal /\ OnLossDetectionTimer

SpecCwnd == InitCwnd /\ [][NextCwnd]_vars

\* cwnd_left() as the window less the bytes in flight, and never negative.
CwndLeft(c) == ngtcp2_max(0, c.ccs.cwnd - ngtcp2_conn_get_bytes_in_flight(c))

\* The call is a write call of the application that takes stream data.
CwndWrite(call) == call.op \in {"write_pkt", "writev_stream"}

\* The write call on c is one that writes a probe packet if it writes.
CwndProbe(c) == c.state = NGTCP2_CS_POST_HANDSHAKE /\ c.rcs.probe_pkt_left > 0

\* The write call on c once the window is wide open.
CwndOpen(c, call) ==
  LET c1 == [c EXCEPT !.ccs.cwnd = @ + NGTCP2_MAX_PKT_NUM * 64]
  IN IF call.op = "write_pkt" THEN ngtcp2_conn_write_pkt(c1, call.in.left)
     ELSE ngtcp2_conn_writev_stream(c1, call.in.left, call.in.stream_id, FALSE,
                                    call.in.datalen)

\* The write call has written a probe packet: it has taken one off the
\* probe packets that are left.
CwndProbed(c, c1) == c1.rcs.probe_pkt_left = c.rcs.probe_pkt_left - 1

C33_Step ==
  CwndWrite(last') =>
    /\ ~CwndProbe(conn) =>
         \A i \in DOMAIN dest' :
           frames_len(dest'[i].frames) > 0 =>
             frames_len(dest'[i].frames) <= CwndLeft(conn)
    /\ CwndProbed(conn, conn') /\ CwndProbed(conn, CwndOpen(conn, last').conn) =>
         dest' = CwndOpen(conn, last').pkts

MaxAgainRecved == 4

AgainRetryPkts ==
  {[RetryPkt(odcid_ok, tokenlen, cb, FALSE) EXCEPT !.scid = scid] :
     odcid_ok \in BOOLEAN, tokenlen \in 0..2, cb \in {"OK", "ERR_CALLBACK_FAILURE"},
     scid \in {<<1>>, <<2>>}}

AgainHsPkts ==
  {Pkt(NGTCP2_PKT_INITIAL, 0, 1, <<CryptoFrame>>),
   Pkt(NGTCP2_PKT_HANDSHAKE, 0, 1, <<CryptoFrame>>),
   Pkt(NGTCP2_PKT_HANDSHAKE, 0, 1,
       <<[type |-> NGTCP2_FRAME_CONNECTION_CLOSE, error_code |-> 0]>>)}

AgainReadHandshake(pkts) ==
  \E p \in pkts :
    /\ conn.hs_recved < MaxAgainRecved
    /\ \E r \in {ngtcp2_conn_read_handshake(conn, p)} :
         DoRet(r, RecvCall("read_handshake", p))

InitAgain == InitWith(conn_new(FALSE))

NextAgain ==
  \/ ~fatal /\ ClientWriteHandshake({8}, {-1}, {0})
  \/ ~fatal /\ AgainReadHandshake(AgainRetryPkts)
  \/ ~fatal /\ AgainReadHandshake(AgainHsPkts)
  \/ ~fatal /\ InstallKeys

SpecAgain == InitAgain /\ [][NextAgain]_vars

\* The call hands a Retry packet to a client that has acted upon one.
AgainCase(c, call) ==
  /\ call.op = "read_handshake"
  /\ call.in.type = NGTCP2_PKT_RETRY
  /\ "RECV_RETRY" \in c.flags

\* The parts of the connection a Retry packet that is acted upon changes.
AgainState(c) ==
  [state |-> c.state, dcid |-> c.dcid.current, token |-> c.token,
   rtb |-> [ns \in Spaces |-> c[ns].rtb]]

C34_Original_Step == AgainCase(conn, last') => AgainState(conn') = AgainState(conn)

\* C34: a Retry packet received after the one the client has acted upon
\* leaves the connection state, the current DCID, the stored token and the
\* retransmit buffers unchanged.
C34_Original == [][C34_Original_Step]_vars

\* What a read_handshake call does to c whatever the packet is: once the
\* key for Handshake packets is there, a client that waits for the handshake
\* processes the Handshake packets it has buffered.
AgainBuffered(c) ==
  IF c.state = NGTCP2_CS_CLIENT_WAIT_HANDSHAKE
  THEN conn_read_handshake_buffered(Ret(c, "OK")).conn
  ELSE c

C34_Step ==
  AgainCase(conn, last') => AgainState(conn') = AgainState(AgainBuffered(conn))

\* C34 (amended): a Retry packet received after the one the client has
\* acted upon has no effect of its own on the connection state, the current
\* DCID, the stored token and the retransmit buffers: they change only as
\* the Handshake packets change them that were buffered before their key
\* was there and that the call processes.
C34_OneRetryActedUpon == [][C34_Step]_vars

\* A second Retry packet that names another connection ID and carries
\* another token has reached a client that waits for the handshake with
\* its Initial packet in flight, and was accepted without effect.
C34_Witness ==
  /\ last.op = "read_handshake"
  /\ last.in.type = NGTCP2_PKT_RETRY
  /\ rv = "OK"
  /\ "RECV_RETRY" \in conn.flags
  /\ "CONN_ID_NEGOTIATED" \notin conn.flags
  /\ last.in.odcid_ok /\ last.in.cb = "OK"
  /\ conn.state = NGTCP2_CS_CLIENT_WAIT_HANDSHAKE
  /\ conn.dcid.current.cid # last.in.scid
  /\ conn.token.len \notin {0, last.in.tokenlen}
  /\ last.in.tokenlen > 0
  /\ conn.in_pktns.rtb.ents # {}

(***************************************************************************)
(* The send-side flow-control limits over the steps of SpecFc.             *)
(***************************************************************************)
\* The limits of c1 are not below those of c, for the connection and for
\* every stream that both have.
FcLimitsKept(c, c1) ==
  /\ c1.tx.max_offset >= c.tx.max_offset
  /\ \A s \in DOMAIN c.strms \cap DOMAIN c1.strms :
       c1.strms[s].tx.max_offset >= c.strms[s].tx.max_offset

C35_Step == FcLimitsKept(conn, conn')

\* C35: conn.tx.max_offset and the tx.max_offset of every stream never
\* decrease, whatever MAX_DATA and MAX_STREAM_DATA frames are received and
\* whatever early and final transport parameters of the peer are installed.
C35_LimitsNeverDecrease == [][C35_Step]_vars

(***************************************************************************)
(* Opening local streams: a client that may take the peer's stream limits  *)
(* from remembered (early) transport parameters, from the final ones and   *)
(* from MAX_STREAMS frames, and opens streams of both kinds in between.    *)
(***************************************************************************)
MaxOpenStreams == 2

OpenParamSet ==
  {[Params(MaxOff - 1, MaxOff - 1) EXCEPT !.max_streams_bidi = b, !.max_streams_uni = u] :
     b \in 0..MaxOpenStreams, u \in 0..MaxOpenStreams}

OpenSetEarlyRemoteTransportParams ==
  /\ ~conn.server
  /\ conn.state = NGTCP2_CS_CLIENT_INITIAL
  /\ "TRANSPORT_PARAM_RECVED" \notin conn.flags
  /\ conn.remote.settings = zero_settings
  /\ \E params \in OpenParamSet :
       \E r \in {Ret(ngtcp2_conn_set_early_remote_transport_params(conn, params), "OK")} :
         DoRet(r, Call("set_early_remote_transport_params", params))

OpenSetRemoteTransportParams ==
  /\ "TRANSPORT_PARAM_RECVED" \notin conn.flags
  /\ conn.state \notin {NGTCP2_CS_CLOSING, NGTCP2_CS_DRAINING}
  /\ conn.hs_pktns.crypto.strm.rx_offset > 0
  /\ \E params \in OpenParamSet :
       \E r \in {ngtcp2_conn_set_remote_transport_params(conn, params, TRUE)} :
         DoRet(r, Call("set_remote_transport_params", params))

OpenUniStream ==
  \E r \in {ngtcp2_conn_open_uni_stream(conn)} :
    DoRet(r, Call("open_uni_stream", << >>))

OpenPkts ==
  {Pkt(NGTCP2_PKT_SHORT, NextRx("pktns"), 2, <<fr>>) :
     fr \in {[type |-> t, max_streams |-> n] :
               t \in {NGTCP2_FRAME_MAX_STREAMS_BIDI, NGTCP2_FRAME_MAX_STREAMS_UNI},
               n \in {1, MaxOpenStreams + 1, NGTCP2_MAX_STREAMS + 1}}}

InitOpen == InitWith(conn_new(FALSE))

NextOpen ==
  \/ ~Failed /\ OpenSetEarlyRemoteTransportParams
  \/ ~Failed /\ InstallEarlyKeys
  \/ ~Failed /\ OpenBidiStream
  \/ ~Failed /\ OpenUniStream
  \/ ~Failed /\ ClientWriteHandshake({8}, {-1}, {0})
  \/ ~Failed /\ ReadHandshake(FcHsPkts)
  \/ ~Failed /\ InstallKeys
  \/ ~Failed /\ OpenSetRemoteTransportParams
  \/ ~Failed /\ HandshakeCompleted
  \/ ~Failed /\ ReadPkt(OpenPkts)

SpecOpen == InitOpen /\ [][NextOpen]_vars

OpenKinds == {"bidi", "uni"}

OpenOp(kind) == IF kind = "bidi" THEN "open_bidi_stream" ELSE "open_uni_stream"

\* The number of streams of a kind the endpoint has opened.
OpenCount(c, kind) == ngtcp2_ord_stream_id(c.local[kind].next_stream_id) - 1

C36_Step ==
  \A kind \in OpenKinds :
    /\ last'.op = OpenOp(kind) =>
         LET id == conn.local[kind].next_stream_id
         IN IF ngtcp2_ord_stream_id(id) <= conn.local[kind].max_streams
            THEN /\ rv' = "OK"
                 /\ DOMAIN conn'.strms = DOMAIN conn.strms \cup {id}
                 /\ id \notin DOMAIN conn.strms
                 /\ conn'.local[kind].next_stream_id = id + 4
            ELSE /\ rv' = "ERR_STREAM_ID_BLOCKED"
                 /\ conn'.strms = conn.strms
                 /\ conn'.local = conn.local
    /\ conn'.local[kind].next_stream_id # conn.local[kind].next_stream_id =>
         /\ last'.op = OpenOp(kind)
         /\ OpenCount(conn', kind) = OpenCount(conn, kind) + 1
         /\ OpenCount(conn', kind) <= conn.local[kind].max_streams

\* C36: open_bidi_stream and open_uni_stream succeed exactly while the
\* ordinal of the next local stream id of the kind does not exceed the
\* current limit local.<kind>.max_streams; a refused call returns
\* STREAM_ID_BLOCKED, creates no stream and leaves next_stream_id as it
\* was.  Nothing else advances next_stream_id, so every stream opened was
\* within a limit the peer had granted when it was opened.
C36_OpenWithinStreamLimit == [][C36_Step]_vars

\* Both outcomes of both calls have happened: with the limit raised by a
\* MAX_STREAMS frame the endpoint has opened that many streams of the kind
\* and the next call was refused.
C36_Witness ==
  /\ last.op = "open_bidi_stream"
  /\ rv = "ERR_STREAM_ID_BLOCKED"
  /\ conn.local.bidi.max_streams = MaxOpenStreams + 1
  /\ OpenCount(conn, "bidi") = MaxOpenStreams + 1
  /\ OpenCount(conn, "uni") = conn.local.uni.max_streams
  /\ conn.local.uni.max_streams > 0

(***************************************************************************)
(* The probe timeout over the steps of SpecAck.                            *)
(***************************************************************************)
\* No packet of the Initial or Handshake space that asks for an
\* acknowledgement is in flight.
NoHandshakeInFlight(c) ==
  \A ns \in {"in_pktns", "hs_pktns"} :
    \A e \in c[ns].rtb.ents : "ACK_ELICITING" \notin e.flags

PtoCase(c) ==
  /\ c.rcs.loss_detection_timer
  /\ NoHandshakeInFlight(c)
  /\ c.pktns.crypto.tx.ckm

C37_Step ==
  last'.op = "on_loss_detection_timer" /\ PtoCase(conn) =>
    /\ rv' = "OK"
    /\ conn'.rcs.probe_pkt_left = 2
    /\ conn'.rcs.pto_count = conn.rcs.pto_count + 1
    /\ conn'.rcs.crypto_count = conn.rcs.crypto_count

\* C37: when the loss detection timer expires while it is armed, no
\* ack-eliciting Initial or Handshake packet is in flight and the 1-RTT
\* sending key is installed, probe_pkt_left becomes 2, pto_count grows by
\* one and crypto_count keeps its value.
C37_PtoSchedulesTwoProbes == [][C37_Step]_vars

\* A second probe timeout in a row has expired after a handshake packet in
\* flight had made the timer count a crypto timeout first; one of the two
\* probes of the earlier timeout had been sent.
C37_Witness ==
  /\ last.op = "on_loss_detection_timer"
  /\ conn.rcs.probe_pkt_left = 2
  /\ conn.rcs.pto_count = 2
  /\ conn.rcs.crypto_count = 1
  /\ NoHandshakeInFlight(conn)

(***************************************************************************)
(* SpecShut: an established client with its own bidirectional stream and   *)
(* the server's first unidirectional stream.  The client writes its FIN    *)
(* with or without data; the server sends STREAM frames in and out of      *)
(* order, RESET_STREAM and STOP_SENDING.  Acknowledgement of stream data   *)
(* and of RESET_STREAM is the work of ngtcp2_rtb and does not happen here: *)
(* a stream has all its sent data acknowledged while it has sent none.     *)
(***************************************************************************)
ShutStreams == {0, 3}

MaxShutRxPktNum == 2

ShutFrames ==
  {[type |-> NGTCP2_FRAME_STREAM, stream_id |-> s, offset |-> o, datalen |-> 1,
    fin |-> f] : s \in ShutStreams, o \in 0..1, f \in BOOLEAN}
    \cup
  {[type |-> NGTCP2_FRAME_RESET_STREAM, stream_id |-> s, final_size |-> 2,
    app_error_code |-> 1] : s \in ShutStreams}
    \cup
  {[type |-> NGTCP2_FRAME_STOP_SENDING, stream_id |-> 0, app_error_code |-> 1]}

ShutPkts == {Pkt(NGTCP2_PKT_SHORT, NextRx("pktns"), 2, <<fr>>) : fr \in ShutFrames}

InitShut == InitAt(Established)

NextShut ==
  \/ ~fatal /\ OpenBidiStream
  \/ ~fatal /\ WritevStream({8}, {0}, {TRUE}, {0, 1})
  \/ ~fatal /\ conn.pktns.rx.max_pkt_num < MaxShutRxPktNum /\ ReadPkt(ShutPkts)

SpecShut == InitShut /\ [][NextShut]_vars

\* The call handed over a packet whose frame for a stream was processed
\* without an error.
ShutCall(call, r) ==
  /\ call.op = "read_pkt"
  /\ ~call.dup
  /\ r = "OK"

ShutRdwr(strm) == {"SHUT_RD", "SHUT_WR"} \subseteq strm.flags

\* All data the stream has sent is acknowledged, or the RESET_STREAM it has
\* sent is.
ShutTxDone(strm) ==
  \/ strm.tx.acked_offset = strm.tx.offset
  \/ {"SENT_RST", "RST_ACKED"} \subseteq strm.flags

\* The send side as ngtcp2_conn_close_stream_if_shut_rdwr tests it.
ShutTxClosed(strm) ==
  \/ "SENT_RST" \notin strm.flags /\ strm.tx.acked_offset = strm.tx.offset
  \/ {"SENT_RST", "RST_ACKED"} \subseteq strm.flags

\* The receive side is finished: the peer has reset the stream, or all data
\* up to the final size has been received.
ShutRxClosed(strm) ==
  \/ "RECV_RST" \in strm.flags
  \/ ngtcp2_rob_first_gap_offset(strm.rx.rob) = strm.rx.last_offset

\* The frame has opened the stream or changed it, and the stream is in the
\* table after the call.
ShutTouched(c, c1, sid) ==
  /\ sid \in DOMAIN c1.strms
  /\ sid \in DOMAIN c.strms => c1.strms[sid] # c.strms[sid]

\* A stream leaves the table only in a call that processes a frame for it.
ShutRemovedByFrame(c, c1, call, r) ==
  \A sid \in DOMAIN c.strms \ DOMAIN c1.strms :
    /\ ShutCall(call, r)
    /\ RxFrame(call).stream_id = sid

C38_Original_Step ==
  /\ ShutRemovedByFrame(conn, conn', last', rv')
  /\ \A sid \in DOMAIN conn.strms \ DOMAIN conn'.strms :
       "SHUT_WR" \in conn.strms[sid].flags /\ ShutTxDone(conn.strms[sid])
  /\ ShutCall(last', rv') /\ ShutTouched(conn, conn', RxFrame(last').stream_id) =>
       ~(/\ ShutRdwr(conn'.strms[RxFrame(last').stream_id])
         /\ ShutTxDone(conn'.strms[RxFrame(last').stream_id]))

ShutRxClosedBy(strm, fr) ==
  \/ fr.type = NGTCP2_FRAME_RESET_STREAM
  \/ "RECV_RST" \in strm.flags
  \/ /\ fr.type = NGTCP2_FRAME_STREAM
     /\ ngtcp2_rob_first_gap_offset(ngtcp2_rob_push(strm.rx.rob, fr.offset, fr.datalen))
          = ngtcp2_max(strm.rx.last_offset, fr.offset + fr.datalen)
  \/ fr.type = NGTCP2_FRAME_STOP_SENDING /\ ShutRxClosed(strm)

C38_Step ==
  /\ ShutRemovedByFrame(conn, conn', last', rv')
  /\ \A sid \in DOMAIN conn.strms \ DOMAIN conn'.strms :
       /\ "SHUT_WR" \in conn.strms[sid].flags
       /\ ShutTxClosed(conn.strms[sid])
       /\ ShutRxClosedBy(conn.strms[sid], RxFrame(last'))
  /\ ShutCall(last', rv') /\ ShutTouched(conn, conn', RxFrame(last').stream_id) =>
       ~(/\ ShutRdwr(conn'.strms[RxFrame(last').stream_id])
         /\ ShutRxClosed(conn'.strms[RxFrame(last').stream_id])
         /\ ShutTxClosed(conn'.strms[RxFrame(last').stream_id]))

MaxRsvPktNum == 1

RsvHsPkts ==
  {[Pkt(t, n, 2, <<CryptoFrame>>) EXCEPT !.rsv_ok = r, !.auth = a] :
     t \in {NGTCP2_PKT_INITIAL, NGTCP2_PKT_HANDSHAKE}, n \in 0..MaxRsvPktNum,
     r \in BOOLEAN, a \in BOOLEAN}

RsvPkts ==
  {[Pkt(NGTCP2_PKT_SHORT, n, 2, <<[type |-> NGTCP2_FRAME_PING]>>)
      EXCEPT !.rsv_ok = r, !.auth = a] :
     n \in 0..MaxRsvPktNum, r \in BOOLEAN, a \in BOOLEAN}
    \cup
  {[Pkt(NGTCP2_PKT_HANDSHAKE, n, 2, <<CryptoFrame>>) EXCEPT !.rsv_ok = r] :
     n \in 0..MaxRsvPktNum, r \in BOOLEAN}

InitRsv == InitWith(conn_new(FALSE))

NextRsv ==
  \/ ~Failed /\ ClientWriteHandshake({8}, {-1}, {0})
  \/ ReadHandshake(RsvHsPkts)
  \/ ~Failed /\ InstallKeys
  \/ ~Failed /\ SetRemoteTransportParams
  \/ ~Failed /\ HandshakeCompleted
  \/ ReadPkt(RsvPkts)

SpecRsv == InitRsv /\ [][NextRsv]_vars

\* The call hands over a packet that is processed and decrypts, and whose
\* reserved header bits are not zero.
RsvCase(c, call) == Processed(c, call) /\ ~call.in.rsv_ok

C39_Original_Step == RsvCase(conn, last') => rv' = "ERR_PROTO"

C39_Step ==
  RsvCase(conn, last') =>
    IF last'.in.type = NGTCP2_PKT_INITIAL
    THEN /\ rv' = "OK"
         /\ conn_recv_handshake_pkt(conn, last'.in).rv = "ERR_PROTO"
         /\ conn'.in_pktns = conn.in_pktns
         /\ conn'.hs_recved = conn.hs_recved
    ELSE /\ rv' = "ERR_PROTO"
         /\ conn'[pktns_of(last'.in.type)] = conn[pktns_of(last'.in.type)]

ProbeWriteOps ==
  {"write_pkt", "writev_stream", "write_handshake", "client_write_handshake",
   "write_connection_close", "write_application_close"}

ProbeReadOps == {"read_pkt", "read_handshake"}

\* The call has written a Short packet with the next packet number.
ProbeEmitted(c, r, pkts) ==
  /\ r = "NWRITE"
  /\ \E i \in DOMAIN pkts :
       /\ pkts[i].type = NGTCP2_PKT_SHORT
       /\ pkts[i].pkt_num = c.pktns.tx.last_pkt_num + 1

C40_Step ==
  /\ conn'.rcs.probe_pkt_left \in 0..2
  /\ last'.op \in ProbeWriteOps =>
       /\ conn'.rcs.probe_pkt_left # conn.rcs.probe_pkt_left =>
            /\ conn'.rcs.probe_pkt_left = conn.rcs.probe_pkt_left - 1
            /\ ProbeEmitted(conn, rv', dest')
       /\ rv' # "NWRITE" \/ dest' = << >> =>
            conn'.rcs.probe_pkt_left = conn.rcs.probe_pkt_left
       /\ (/\ conn.rcs.probe_pkt_left > 0
           /\ conn.state = NGTCP2_CS_POST_HANDSHAKE
           /\ conn.pv = << >>
           /\ ProbeEmitted(conn, rv', dest')) =>
            conn'.rcs.probe_pkt_left = conn.rcs.probe_pkt_left - 1
  /\ (/\ last'.op \notin ProbeWriteOps
      /\ conn'.rcs.probe_pkt_left # conn.rcs.probe_pkt_left) =>
       \/ last'.op = "on_loss_detection_timer" /\ conn'.rcs.probe_pkt_left = 2
       \/ last'.op \in ProbeReadOps /\ conn'.rcs.probe_pkt_left = 0

\* C40: probe_pkt_left stays between 0 and 2.  A write call lowers it only
\* by one and only when it has written a Short packet; a write call that
\* writes nothing or fails leaves it as it was; after the handshake a write
\* call that writes a Short packet while probes are left uses up one.
\* Apart from that only the expiry of the loss detection timer (to 2) and a
\* received acknowledgement (to 0) change it.
C40_ProbePktLeft == [][C40_Step]_vars

\* Both probes of a probe timeout have been sent, the second by this call,
\* and no acknowledgement has arrived since the timeout.
C40_Witness ==
  /\ last.op \in {"write_pkt", "writev_stream"}
  /\ rv = "NWRITE"
  /\ dest # << >>
  /\ conn.rcs.probe_pkt_left = 0
  /\ conn.rcs.pto_count = 1
  /\ \E e \in conn.pktns.rtb.ents :
       /\ e.pkt_num = conn.pktns.tx.last_pkt_num
       /\ "PROBE" \in e.flags

====
